---------------------------- MODULE Spec2Model ----------------------------
(***************************************************************************)
(* Anti-abuse subsystem of VivaanXMusic: the warning store of              *)
(* mongo/abuse_words_db.py (collection abuse_warnings), the escalation     *)
(* policy of utils/warning_manager.py and the message handler              *)
(* handle_message_abuse of plugins/admins/anti_abuse.py, the detector of   *)
(* utils/abuse_detector.py, the word list (collection abuse_words), the   *)
(* startup sequence init() of __main__.py, the /antiabuse admin command,   *)
(* the scheduled deletion of warning messages, and the edited-message      *)
(* handler of plugins/admins/anti_edit.py.                                 *)
(*                                                                         *)
(* A handler is a coroutine: it runs atomically between two awaits, and    *)
(* every database call is an await.  Each action below is one such         *)
(* segment together with the database operation it ends with.              *)
(***************************************************************************)
EXTENDS Integers, Sequences, FiniteSets, TLC

VARIABLES
    warns,      \* user_warnings_collection, documents in natural (insertion) order
    config,     \* abuse_config_collection: chat_id -> config document
    clock,      \* datetime.now(), as a logical time that ticks at every offense
    h,          \* the running invocations of handle_message_abuse
    last,       \* the last call of reset_chat_warnings: the operation and its chat
    det,        \* a call of the detector: its arguments and what it returned
    abuse_words_collection,  \* abuse_words_collection, documents in insertion order
    abuse_logs_collection,   \* abuse_logs_collection: the number of its documents
    mods,       \* the module globals set at startup and the names the plugin binds
    calls,      \* the running calls of add_abuse_word and detect_abuse_in_message
    config_fields,  \* abuse_config_collection: the fields the document of a chat holds
    config_strict,  \* abuse_config_collection: strict_mode of a chat
    cmds,           \* the running /antiabuse strict commands
    warning_delete_tasks,  \* AntiAbuseManager.warning_delete_tasks: key -> task
    tasks,          \* the delete_warning tasks created, in creation order
    antiedit_config,       \* antiedit_config: chat_id -> enabled
    authorized_collection, \* authorized_users: the (chat_id, user_id) pairs
    processing_edits,      \* AntiEditManager.processing_edits
    original_messages,     \* original_messages: message_id -> stored text
    messages,       \* the messages of the chat as Telegram holds them
    edits           \* the running invocations of handle_edited_message

\* the strict command and what it reads and writes
confvars == <<config_fields, config_strict, cmds>>

\* the scheduled deletions of warning messages
delvars == <<warning_delete_tasks, tasks>>

\* plugins/admins/anti_edit.py
editvars == <<antiedit_config, authorized_collection, processing_edits,
              original_messages, messages, edits>>

\* the state of the admin command, the deletion tasks and the anti-edit plugin
plugins == <<confvars, delvars, editvars>>

vars == <<warns, config, clock, h, last, det,
          abuse_words_collection, abuse_logs_collection, mods, calls,
          confvars, delvars, editvars>>

\* the word list, the module globals and the calls on the word list, and the
\* state of the commands, tasks and plugins that no handler of a message reads
sys == <<abuse_words_collection, mods, calls, confvars, delvars, editvars>>

---------------------------------------------------------------------------
(* Bounds *)

MaxMsgs == 3            \* offenses detected in the concurrent specifications
MaxRaceMsgs == 4        \* offenses detected in the single-pair race specification
MaxSeqMsgs == 16        \* offenses detected in the sequential specification
MaxLimit == 3           \* largest warning limit an admin sets
MaxWords == 2           \* longest list of banned terms given to the detector
MaxTermLen == 2         \* longest banned term drawn letter by letter
MaxTextLen == 2         \* longest text drawn character by character
LongTermLen == 43       \* length of the long banned term given to generate_patterns
MaxFaultMsgs == 3       \* offenses and log entries recorded while calls may fail

Procs == {1, 2}         \* handler invocations that may be in flight together
Chats == {1, 2}
Users == {1, 2}
OWNER_ID == 9           \* config.OWNER_ID
SeqProcs == {1}
SeqChats == {1}
SeqUsers == {1, OWNER_ID}
RaceChats == {1}
RaceUsers == {1}
Words == {"spam"}       \* banned terms a message may be matched against
NoWord == ""            \* detect_abuse found nothing: (False, None)
Actions == {"mute", "ban", "delete_only", "warn_only"}
Limits == 0..MaxLimit
InvalidAction == "kick" \* an action none of the branches knows

---------------------------------------------------------------------------
(* abuse_words_db.py: the documents and the MongoDB operations used on them *)

HistoryCap == 10

DefaultConfig ==
    [enabled |-> TRUE, warning_limit |-> 3, action |-> "delete_only",
     exclude_admins |-> TRUE]

Matching(coll, chat_id, user_id) ==
    {i \in DOMAIN coll : coll[i].chat_id = chat_id /\ coll[i].user_id = user_id}

FirstMatch(coll, chat_id, user_id) ==
    CHOOSE i \in Matching(coll, chat_id, user_id) :
        \A j \in Matching(coll, chat_id, user_id) : i <= j

\* collection.find_one({"chat_id": .., "user_id": ..}): <<>> is None
find_one(coll, chat_id, user_id) ==
    IF Matching(coll, chat_id, user_id) = {} THEN <<>>
    ELSE <<coll[FirstMatch(coll, chat_id, user_id)]>>

RemoveAt(coll, i) ==
    [j \in 1..(Len(coll) - 1) |-> IF j < i THEN coll[j] ELSE coll[j + 1]]

\* collection.delete_one(filter): removes the first matching document
delete_one(coll, chat_id, user_id) ==
    IF Matching(coll, chat_id, user_id) = {} THEN coll
    ELSE RemoveAt(coll, FirstMatch(coll, chat_id, user_id))

\* collection.delete_many({"chat_id": chat_id})
delete_many_first(coll, chat_id) ==
    IF \E i \in DOMAIN coll : coll[i].chat_id = chat_id
    THEN RemoveAt(coll, CHOOSE i \in DOMAIN coll :
                            /\ coll[i].chat_id = chat_id
                            /\ \A j \in DOMAIN coll : coll[j].chat_id = chat_id => i <= j)
    ELSE coll

delete_many(coll, chat_id) ==
    SelectSeq(coll, LAMBDA d : d.chat_id # chat_id)

\* collection.update_one(filter, {"$set": ..}) without upsert: the first
\* matching document is changed, and nothing happens if there is none
update_one_by_chat(coll, chat_id, user_id, warnings, offenses, now) ==
    [i \in DOMAIN coll |->
        IF coll[i].chat_id = chat_id
        THEN [coll[i] EXCEPT !.warnings = warnings, !.offenses = offenses,
                             !.last_offense = now]
        ELSE coll[i]]

update_one(coll, chat_id, user_id, warnings, offenses, now) ==
    IF Matching(coll, chat_id, user_id) = {} THEN coll
    ELSE [coll EXCEPT ![FirstMatch(coll, chat_id, user_id)] =
            [@ EXCEPT !.warnings = warnings, !.offenses = offenses,
                      !.last_offense = now]]

\* offenses[-10:] once the list is longer than 10
trim_offenses_oldest(offenses) ==
    IF Len(offenses) > HistoryCap THEN SubSeq(offenses, 1, HistoryCap) ELSE offenses

trim_offenses(offenses) ==
    IF Len(offenses) > HistoryCap
    THEN SubSeq(offenses, Len(offenses) - HistoryCap + 1, Len(offenses))
    ELSE offenses

\* warnings = user_warns.get("warnings", 0) + 1, or 1 for a new document
new_warnings_same(user_warns) ==
    IF user_warns # <<>> THEN user_warns[1].warnings ELSE 1

new_warnings(user_warns) ==
    IF user_warns # <<>> THEN user_warns[1].warnings + 1 ELSE 1

\* get_warnings: the count of the document find_one returns, 0 if there is none
get_warnings(coll, chat_id, user_id) ==
    IF find_one(coll, chat_id, user_id) # <<>>
    THEN find_one(coll, chat_id, user_id)[1].warnings ELSE 0

\* get_user_history(..).get("offenses", []): the history of the pair
get_offenses(coll, chat_id, user_id) ==
    IF find_one(coll, chat_id, user_id) # <<>>
    THEN find_one(coll, chat_id, user_id)[1].offenses ELSE <<>>

---------------------------------------------------------------------------
(* utils/warning_manager.py *)

\* WarningManager.should_take_action: the "should_act" of the decision
should_take_action_above(warnings, warning_limit, action) ==
    IF warning_limit = 0 THEN FALSE ELSE warnings > warning_limit

should_take_action_nolimit(warnings, warning_limit, action) ==
    warnings >= warning_limit

should_take_action(warnings, warning_limit, action) ==
    IF warning_limit = 0 THEN FALSE ELSE warnings >= warning_limit

\* WarningMessage.get_warning_message: the template chosen (kind), the action
\* it names and the numbers it prints (-1: the template prints no such number)
Msg(kind, action, num, den, rem) ==
    [kind |-> kind, action |-> action, num |-> num, den |-> den, rem |-> rem]

get_warning_message_late(warnings, limit, action) ==
    IF action = "warn_only" THEN Msg("warn_only", action, -1, -1, -1)
    ELSE IF action \in {"delete_only", "mute", "ban"} THEN
        IF limit = 0 THEN Msg("unlimited", action, -1, -1, -1)
        ELSE IF limit - warnings < 0 THEN
            Msg("limit_reached", action,
                IF action = "delete_only" THEN limit ELSE -1,
                IF action = "ban" THEN -1 ELSE limit, -1)
        ELSE IF limit - warnings = 0 THEN Msg("final", action, warnings, limit, 1)
        ELSE Msg("count", action, warnings, limit, limit - warnings)
    ELSE Msg("deleted", action, -1, -1, -1)

get_warning_message(warnings, limit, action) ==
    IF action = "warn_only" THEN Msg("warn_only", action, -1, -1, -1)
    ELSE IF action \in {"delete_only", "mute", "ban"} THEN
        IF limit = 0 THEN Msg("unlimited", action, -1, -1, -1)
        ELSE IF limit - warnings <= 0 THEN
            Msg("limit_reached", action,
                IF action = "delete_only" THEN limit ELSE -1,
                IF action = "ban" THEN -1 ELSE limit, -1)
        ELSE IF limit - warnings = 1 THEN Msg("final", action, warnings, limit, 1)
        ELSE Msg("count", action, warnings, limit, limit - warnings)
    ELSE Msg("deleted", action, -1, -1, -1)

\* AntiAbuseManager.execute_action: the call made to the chat transport
execute_action_default_mute(action) ==
    IF action = "ban" THEN "ban" ELSE "mute"

execute_action(action) ==
    IF action = "mute" THEN "mute"
    ELSE IF action = "ban" THEN "ban"
    ELSE "none"

---------------------------------------------------------------------------
(* utils/abuse_detector.py.  A text is a sequence of characters; a character *)
(* is a one-character string, or "U+xxxx" for a character outside ASCII.     *)

LowerOf ==
    [A |-> "a", B |-> "b", C |-> "c", D |-> "d", E |-> "e", F |-> "f",
     G |-> "g", H |-> "h", I |-> "i", J |-> "j", K |-> "k", L |-> "l",
     M |-> "m", N |-> "n", O |-> "o", P |-> "p", Q |-> "q", R |-> "r",
     S |-> "s", T |-> "t", U |-> "u", V |-> "v", W |-> "w", X |-> "x",
     Y |-> "y", Z |-> "z"]

UpperLetters == DOMAIN LowerOf
LowerLetters == {LowerOf[c] : c \in UpperLetters}
Digits == {"0", "1", "2", "3", "4", "5", "6", "7", "8", "9"}
Whitespace == {" ", "\t", "\n"}
Punctuation == {".", ",", "_", "-", "*", "|", "/", "@", "!", "$", "+", "&",
                "(", ")", "\\", "[", "]", "'"}
Ascii == UpperLetters \cup LowerLetters \cup Digits \cup Whitespace \cup Punctuation

\* \w on an ASCII text, for \b
WordChars == UpperLetters \cup LowerLetters \cup Digits \cup {"_"}

\* the class [\s\.\,\-_\*\|/] of remove_separators, which is also the class
\* [.\s,_\-*|/] of create_regex_pattern
SepChars == Whitespace \cup {".", ",", "-", "_", "*", "|", "/"}

\* str.lower() of one character: U+FF21 is the fullwidth A; the other
\* characters outside ASCII used here have no lower-case form of their own
lower_char(c) ==
    IF c \in UpperLetters THEN LowerOf[c]
    ELSE IF c = "U+FF21" THEN "U+FF41"
    ELSE c

\* line 78: the zero-width characters
ZeroWidth == {"U+200B", "U+200C", "U+200D", "U+FEFF"}

\* lines 81-82 for one character: unicodedata.normalize('NFKD', c), then
\* encode('ascii', 'ignore'): what is left of the compatibility decomposition
nfkd_ascii(c) ==
    IF c \in Ascii THEN <<c>>
    ELSE IF c = "U+2122" THEN <<"T", "M">>          \* trade mark sign
    ELSE IF c = "U+210C" THEN <<"H">>               \* black-letter capital H
    ELSE IF c = "U+2103" THEN <<"C">>               \* degree celsius
    ELSE IF c = "U+00A0" THEN <<" ">>               \* no-break space
    ELSE IF c = "U+00A8" THEN <<" ">>               \* diaeresis: space + U+0308
    ELSE IF c = "U+FF41" THEN <<"a">>               \* fullwidth letters
    ELSE IF c = "U+FF45" THEN <<"e">>
    ELSE IF c = "U+FF49" THEN <<"i">>
    ELSE IF c = "U+FF4F" THEN <<"o">>
    ELSE IF c = "U+FF53" THEN <<"s">>
    ELSE IF c = "U+FF54" THEN <<"t">>
    ELSE IF c = "U+FF4C" THEN <<"l">>
    ELSE IF c = "U+FF5A" THEN <<"z">>
    ELSE IF c = "U+FF47" THEN <<"g">>
    ELSE IF c = "U+FF42" THEN <<"b">>
    ELSE IF c = "U+0163" THEN <<"t">>               \* t with cedilla
    ELSE IF c = "U+017E" THEN <<"z">>               \* z with caron
    ELSE IF c = "U+1E03" THEN <<"b">>               \* b with dot above
    ELSE <<>>                                       \* Cyrillic, Greek, IPA, ...

RECURSIVE Flatten(_)
Flatten(ss) ==
    IF ss = <<>> THEN <<>> ELSE Head(ss) \o Flatten(Tail(ss))

\* str.lower() of a text
lower_text(text) == [i \in DOMAIN text |-> lower_char(text[i])]

\* ' '.join(text.split()): runs of whitespace become one space, none at the ends
RECURSIVE join_split(_, _)
join_split(text, acc) ==
    IF text = <<>> THEN acc
    ELSE IF Head(text) \in Whitespace THEN
        IF acc = <<>> \/ \A i \in DOMAIN Tail(text) : Tail(text)[i] \in Whitespace
        THEN join_split(Tail(text), acc)
        ELSE IF acc[Len(acc)] = " " THEN join_split(Tail(text), acc)
        ELSE join_split(Tail(text), Append(acc, " "))
    ELSE join_split(Tail(text), Append(acc, Head(text)))

\* normalize_text, lines 74-82: lower(), the zero-width characters, NFKD to ASCII
normalize_text_nosplit(text) ==
    LET visible == SelectSeq(lower_text(text), LAMBDA c : c \notin ZeroWidth)
    IN  Flatten([i \in DOMAIN visible |-> nfkd_ascii(visible[i])])

\* normalize_text, lines 61-87
normalize_text(text) ==
    join_split(normalize_text_nosplit(text), <<>>)

\* remove_separators, lines 89-101
remove_separators_spaces(text) ==
    SelectSeq(text, LAMBDA c : c \notin Whitespace)

remove_separators(text) ==
    SelectSeq(text, LAMBDA c : c \notin SepChars)

\* str.strip() and str.lower() of a word
RECURSIVE lstrip(_)
lstrip(s) ==
    IF s # <<>> /\ Head(s) \in Whitespace THEN lstrip(Tail(s)) ELSE s

RECURSIVE rstrip(_)
rstrip(s) ==
    IF s # <<>> /\ s[Len(s)] \in Whitespace
    THEN rstrip(SubSeq(s, 1, Len(s) - 1)) ELSE s

lower_strip(word) == rstrip(lstrip(lower_text(word)))

\* word in text
Contains(text, word) ==
    \E i \in 0..(Len(text) - Len(word)) : SubSeq(text, i + 1, i + Len(word)) = word

\* self.leetspeak_map, lines 31-42: the replacements of a letter, in order
leetspeak_map(c) ==
    CASE c = "a" -> <<<<"@">>, <<"4">>, <<"/", "-", "\\">>, <<"4">>, <<"U+FF41">>>>
      [] c = "e" -> <<<<"3">>, <<"U+0259">>, <<"U+0451">>, <<"U+0435">>, <<"U+FF45">>>>
      [] c = "i" -> <<<<"1">>, <<"!">>, <<"|">>, <<"U+026A">>, <<"U+FF49">>>>
      [] c = "o" -> <<<<"0">>, <<"(", ")">>, <<"U+03BF">>, <<"U+043E">>, <<"U+FF4F">>>>
      [] c = "s" -> <<<<"5">>, <<"$">>, <<"U+00A7">>, <<"U+0455">>, <<"U+FF53">>>>
      [] c = "t" -> <<<<"7">>, <<"+">>, <<"U+0163">>, <<"U+0442">>, <<"U+FF54">>>>
      [] c = "l" -> <<<<"1">>, <<"|">>, <<"!">>, <<"U+0142">>, <<"U+FF4C">>>>
      [] c = "z" -> <<<<"2">>, <<"U+017E">>, <<"U+0437">>, <<"U+FF5A">>>>
      [] c = "g" -> <<<<"9">>, <<"&">>, <<"U+0261">>, <<"U+0433">>, <<"U+FF47">>>>
      [] c = "b" -> <<<<"8">>, <<"U+1E03">>, <<"U+0431">>, <<"U+FF42">>>>
      [] OTHER -> <<>>

LeetLetters == {"a", "e", "i", "o", "s", "t", "l", "z", "g", "b"}

\* self.separators, lines 45-55, without the empty one
separators == {" ", ".", ",", "_", "-", "*", "|", "/"}

\* sep.join(word)
RECURSIVE Join(_, _)
Join(sep, word) ==
    IF Len(word) <= 1 THEN word
    ELSE <<Head(word)>> \o sep \o Join(sep, Tail(word))

\* word[:pos] + replacement + word[pos+1:], pos counted from 1
Substitute(word, pos, replacement) ==
    SubSeq(word, 1, pos - 1) \o replacement \o SubSeq(word, pos + 1, Len(word))

\* the first n elements of a set of positions
FirstN(S, n) == {i \in S : Cardinality({j \in S : j < i}) < n}

LeetspeakCutoff == 3
LeetspeakShort == 2

\* without the cut to the first positions
generate_leetspeak_uncut(word) ==
    LET char_positions == {i \in DOMAIN word : word[i] \in LeetLetters}
    IN  {word} \cup
        IF Cardinality(char_positions) > LeetspeakCutoff
        THEN {Substitute(word, pk[1], leetspeak_map(word[pk[1]])[pk[2]]) :
                 pk \in {qk \in char_positions \X (1..LeetspeakShort) :
                            qk[2] <= Len(leetspeak_map(word[qk[1]]))}}
        ELSE {Substitute(word, pk[1], leetspeak_map(word[pk[1]])[pk[2]]) :
                 pk \in {qk \in char_positions \X (1..5) :
                            qk[2] <= Len(leetspeak_map(word[qk[1]]))}}

\* generate_leetspeak, lines 164-199
generate_leetspeak(word) ==
    LET char_positions == {i \in DOMAIN word : word[i] \in LeetLetters}
    IN  {word} \cup
        IF Cardinality(char_positions) > LeetspeakCutoff
        THEN {Substitute(word, pk[1], leetspeak_map(word[pk[1]])[pk[2]]) :
                 pk \in {qk \in FirstN(char_positions, LeetspeakCutoff)
                                   \X (1..LeetspeakShort) :
                            qk[2] <= Len(leetspeak_map(word[qk[1]]))}}
        ELSE {Substitute(word, pk[1], leetspeak_map(word[pk[1]])[pk[2]]) :
                 pk \in {qk \in char_positions \X (1..5) :
                            qk[2] <= Len(leetspeak_map(word[qk[1]]))}}

\* generate_patterns, lines 107-162: the set of the variations of a word
generate_patterns_nopipe(word0) ==
    LET word == lower_strip(word0)
    IN  IF word = <<>> THEN {}
        ELSE {word}
             \cup {Join(<<sep>>, word) : sep \in {" ", ".", ",", "_", "-", "*"}}
             \cup {Substitute(word, i, <<word[i], word[i]>>) : i \in DOMAIN word}
             \cup generate_leetspeak(word)

generate_patterns(word0) ==
    LET word == lower_strip(word0)
    IN  IF word = <<>> THEN {}
        ELSE {word}
             \cup {Join(<<sep>>, word) : sep \in {" ", ".", ",", "_", "-", "*", "|"}}
             \cup {Substitute(word, i, <<word[i], word[i]>>) : i \in DOMAIN word}
             \cup generate_leetspeak(word)

\* re.escape (Python 3.7 and later): a backslash before each special character
EscapeSpecial == {"(", ")", "[", "]", "{", "}", "?", "*", "+", "-", "|", "^",
                  "$", "\\", ".", "&", "~", "#", " ", "\t", "\n"}

re_escape(word) ==
    Flatten([i \in DOMAIN word |->
                IF word[i] \in EscapeSpecial THEN <<"\\", word[i]>> ELSE <<word[i]>>])

\* the string r'[.\s,_\-*|/]*' of line 220, one item of the pattern's source
SepClass == "[.\\s,_\\-*|/]*"

\* create_regex_pattern, lines 205-225: the source of the regex, item by item.
\* join works on the characters of the escaped word, so the backslash of an
\* escaped character is followed by SepClass and no longer by its character.
create_regex_pattern(word) ==
    <<"\\", "b">> \o Join(<<SepClass>>, re_escape(word)) \o <<"\\", "b">>

\* What re.compile makes of the source.  A token is an atom of the regex:
\*   lit c   the character c (re.IGNORECASE)      any    .
\*   space   \s                                   seps   [.\s,_\-*|/]*
\*   star c  c*                                   b      \b
\*   eol     $                                    alt    |
\*   open, close   ( and )                        error  re.error is raised
Tok(t, c) == [t |-> t, c |-> c]

\* a backslash followed by SepClass: \[ is the character [, and the rest of
\* the class is read as regex source: . \s , _ \-* | / ]*
BrokenSep ==
    <<Tok("lit", "["), Tok("any", ""), Tok("space", ""), Tok("lit", ","),
      Tok("lit", "_"), Tok("star", "-"), Tok("alt", ""), Tok("lit", "/"),
      Tok("star", "]")>>

\* The characters read here as source are those a pattern of a word of letters
\* can hold: a `*` or a `+` comes right after the `]*` of BrokenSep, where `**`
\* is "multiple repeat" and `]*+` a possessive repeat of the same characters.
RECURSIVE re_compile(_)
re_compile(src) ==
    IF src = <<>> THEN <<>>
    ELSE IF Head(src) = "\\" THEN
        IF Len(src) = 1 THEN <<Tok("error", "")>>
        ELSE IF src[2] = SepClass THEN BrokenSep \o re_compile(Tail(Tail(src)))
        ELSE IF src[2] = "b" THEN <<Tok("b", "")>> \o re_compile(Tail(Tail(src)))
        ELSE <<Tok("lit", src[2])>> \o re_compile(Tail(Tail(src)))
    ELSE IF Head(src) = SepClass THEN <<Tok("seps", "")>> \o re_compile(Tail(src))
    ELSE IF Head(src) = "|" THEN <<Tok("alt", "")>> \o re_compile(Tail(src))
    ELSE IF Head(src) = "." THEN <<Tok("any", "")>> \o re_compile(Tail(src))
    ELSE IF Head(src) = "$" THEN <<Tok("eol", "")>> \o re_compile(Tail(src))
    ELSE IF Head(src) = "(" THEN <<Tok("open", "")>> \o re_compile(Tail(src))
    ELSE IF Head(src) = ")" THEN <<Tok("close", "")>> \o re_compile(Tail(src))
    ELSE IF Head(src) = "*" THEN <<Tok("error", "")>> \o re_compile(Tail(src))
    ELSE IF Head(src) = "+" THEN re_compile(Tail(src))
    ELSE <<Tok("lit", Head(src))>> \o re_compile(Tail(src))

\* the number of groups open before token i
Depth(toks, i) ==
    Cardinality({j \in 1..(i - 1) : toks[j].t = "open"})
      - Cardinality({j \in 1..(i - 1) : toks[j].t = "close"})

\* the token that closes the group token i lies in, Len(toks) + 1 outside groups
EndOfGroup(toks, i) ==
    LET closes == {j \in i..Len(toks) :
                      toks[j].t = "close" /\ Depth(toks, j) = Depth(toks, i)}
    IN  IF closes = {} THEN Len(toks) + 1
        ELSE CHOOSE j \in closes : \A k \in closes : j <= k

\* where the alternatives of the group that starts at token i begin
AltsOf(toks, i) ==
    {i} \cup {j + 1 : j \in {k \in i..(EndOfGroup(toks, i) - 1) :
                               toks[k].t = "alt" /\ Depth(toks, k) = Depth(toks, i)}}

\* the length of the run of characters of S in text from pos on
RECURSIVE RunLen(_, _, _)
RunLen(text, pos, S) ==
    IF pos <= Len(text) /\ text[pos] \in S THEN 1 + RunLen(text, pos + 1, S) ELSE 0

\* \b before position pos
Boundary(text, pos) ==
    (pos > 1 /\ text[pos - 1] \in WordChars)
        # (pos <= Len(text) /\ text[pos] \in WordChars)

\* the tokens from i on match text from pos on
RECURSIVE MatchFrom(_, _, _, _)
MatchFrom(toks, text, i, pos) ==
    IF i > Len(toks) THEN TRUE
    ELSE LET t == toks[i].t
             c == toks[i].c
         IN  CASE t = "lit" ->
                    /\ pos <= Len(text)
                    /\ lower_char(text[pos]) = lower_char(c)
                    /\ MatchFrom(toks, text, i + 1, pos + 1)
               [] t = "any" ->
                    /\ pos <= Len(text)
                    /\ text[pos] # "\n"
                    /\ MatchFrom(toks, text, i + 1, pos + 1)
               [] t = "space" ->
                    /\ pos <= Len(text)
                    /\ text[pos] \in Whitespace
                    /\ MatchFrom(toks, text, i + 1, pos + 1)
               [] t = "seps" ->
                    \E k \in 0..RunLen(text, pos, SepChars) :
                        MatchFrom(toks, text, i + 1, pos + k)
               [] t = "star" ->
                    \E k \in 0..RunLen(text, pos, {c}) :
                        MatchFrom(toks, text, i + 1, pos + k)
               [] t = "b" ->
                    Boundary(text, pos) /\ MatchFrom(toks, text, i + 1, pos)
               [] t = "eol" ->
                    pos = Len(text) + 1 /\ MatchFrom(toks, text, i + 1, pos)
               [] t = "open" ->
                    \E a \in AltsOf(toks, i + 1) : MatchFrom(toks, text, a, pos)
               [] t = "close" ->
                    MatchFrom(toks, text, i + 1, pos)
               [] t = "alt" ->
                    MatchFrom(toks, text, EndOfGroup(toks, i) + 1, pos)
               [] OTHER -> FALSE

\* re.search(regex_pattern, text, re.IGNORECASE) is not None; "error" when
\* re.error is raised
re_search(src, text) ==
    LET toks == re_compile(src)
    IN  IF \E i \in DOMAIN toks : toks[i].t = "error" THEN "error"
        ELSE IF \E pos \in 1..(Len(text) + 1), a \in AltsOf(toks, 1) :
                    MatchFrom(toks, text, a, pos)
        THEN "match" ELSE "none"

\* detect_abuse returned (False, None)
NoMatch == [matched |-> FALSE, word |-> <<>>, tier |-> "none"]

\* a re.error of one pattern ends the scan of the word
detect_word_failclosed(normalized_text, text_no_sep, word) ==
    LET word_lower == lower_strip(word)
    IN  IF Contains(normalized_text, word_lower) THEN "exact"
        ELSE IF Contains(text_no_sep, word_lower) THEN "no_sep"
        ELSE IF \E pattern \in generate_patterns(word_lower) :
                    re_search(create_regex_pattern(pattern), normalized_text) = "error"
        THEN "none"
        ELSE IF \E pattern \in generate_patterns(word_lower) :
                    re_search(create_regex_pattern(pattern), normalized_text) = "match"
        THEN "pattern"
        ELSE "none"

\* detect_abuse, lines 247-272, for one word: the return statement reached
\* (line 252, 257 or 269), "none" if the loop goes on to the next word.  A
\* pattern whose regex raises re.error is skipped.
detect_word(normalized_text, text_no_sep, word) ==
    LET word_lower == lower_strip(word)
    IN  IF Contains(normalized_text, word_lower) THEN "exact"
        ELSE IF Contains(text_no_sep, word_lower) THEN "no_sep"
        ELSE IF \E pattern \in generate_patterns(word_lower) :
                    re_search(create_regex_pattern(pattern), normalized_text) = "match"
        THEN "pattern"
        ELSE "none"

\* the loop of line 246 from the last word to the first
RECURSIVE detect_loop_reversed(_, _, _)
detect_loop_reversed(normalized_text, text_no_sep, abuse_words) ==
    IF abuse_words = <<>> THEN NoMatch
    ELSE LET word == abuse_words[Len(abuse_words)]
             tier == detect_word(normalized_text, text_no_sep, word)
         IN  IF tier # "none"
             THEN [matched |-> TRUE, word |-> lower_strip(word), tier |-> tier]
             ELSE detect_loop_reversed(normalized_text, text_no_sep,
                                       SubSeq(abuse_words, 1, Len(abuse_words) - 1))

\* the loop of line 246
RECURSIVE detect_loop(_, _, _)
detect_loop(normalized_text, text_no_sep, abuse_words) ==
    IF abuse_words = <<>> THEN NoMatch
    ELSE LET tier == detect_word(normalized_text, text_no_sep, Head(abuse_words))
         IN  IF tier # "none"
             THEN [matched |-> TRUE, word |-> lower_strip(Head(abuse_words)),
                   tier |-> tier]
             ELSE detect_loop(normalized_text, text_no_sep, Tail(abuse_words))

\* detect_abuse, lines 227-281, with strict_mode = False (its default): the
\* fuzzy tier of lines 274-279 is not entered
detect_abuse(text, abuse_words) ==
    IF text = <<>> \/ abuse_words = <<>> THEN NoMatch
    ELSE detect_loop(normalize_text(text),
                     remove_separators(normalize_text(text)), abuse_words)

\* detect_multiple, lines 317-335
RECURSIVE detect_multiple(_, _)
detect_multiple(text, abuse_words) ==
    IF abuse_words = <<>> THEN <<>>
    ELSE (IF detect_abuse(text, <<Head(abuse_words)>>).matched
          THEN <<detect_abuse(text, <<Head(abuse_words)>>).word>> ELSE <<>>)
         \o detect_multiple(text, Tail(abuse_words))

\* difflib.SequenceMatcher(None, a, b).find_longest_match over all of a and b:
\* the matching blocks <<i, j, k>> with a[i..i+k-1] = b[j..j+k-1]
MatchingBlocksOf(a, b) ==
    {ijk \in (DOMAIN a) \X (DOMAIN b) \X (1..Len(a)) :
        /\ ijk[1] + ijk[3] - 1 <= Len(a)
        /\ ijk[2] + ijk[3] - 1 <= Len(b)
        /\ SubSeq(a, ijk[1], ijk[1] + ijk[3] - 1)
             = SubSeq(b, ijk[2], ijk[2] + ijk[3] - 1)}

\* the longest block, the earliest in a and then the earliest in b among those
find_longest_match(a, b) ==
    CHOOSE x \in MatchingBlocksOf(a, b) :
        \A y \in MatchingBlocksOf(a, b) :
            \/ x[3] > y[3]
            \/ x[3] = y[3] /\ x[1] < y[1]
            \/ x[3] = y[3] /\ x[1] = y[1] /\ x[2] <= y[2]

\* the characters in the matching blocks of SequenceMatcher: the longest block,
\* then the same to its left and to its right
RECURSIVE matches(_, _)
matches(a, b) ==
    IF MatchingBlocksOf(a, b) = {} THEN 0
    ELSE LET x == find_longest_match(a, b)
         IN  x[3] + matches(SubSeq(a, 1, x[1] - 1), SubSeq(b, 1, x[2] - 1))
                  + matches(SubSeq(a, x[1] + x[3], Len(a)),
                            SubSeq(b, x[2] + x[3], Len(b)))

\* SequenceMatcher(None, a, b).ratio() >= 0.75, with ratio = 2.0 * matches /
\* (len(a) + len(b)), and 1.0 for two empty sequences
ratio_at_least_threshold(a, b) ==
    IF Len(a) + Len(b) = 0 THEN TRUE
    ELSE 8 * matches(a, b) >= 3 * (Len(a) + Len(b))

\* re.findall(r'\b\w+\b', text): the maximal runs of word characters
text_words(text) ==
    {SubSeq(text, ij[1], ij[2]) :
        ij \in {xy \in (DOMAIN text) \X (DOMAIN text) :
                   /\ xy[1] <= xy[2]
                   /\ \A k \in xy[1]..xy[2] : text[k] \in WordChars
                   /\ xy[1] = 1 \/ text[xy[1] - 1] \notin WordChars
                   /\ xy[2] = Len(text) \/ text[xy[2] + 1] \notin WordChars}}

\* fuzzy_match, lines 283-311, with the default threshold 0.75
fuzzy_match(text, word) ==
    \E text_word \in text_words(lower_text(text)) :
        ratio_at_least_threshold(text_word, word)

\* detect_abuse, lines 247-279, for one word with strict_mode = True: the
\* fuzzy tier comes after the three others
detect_word_strict(normalized_text, text_no_sep, word) ==
    IF detect_word(normalized_text, text_no_sep, word) # "none"
    THEN detect_word(normalized_text, text_no_sep, word)
    ELSE IF fuzzy_match(normalized_text, lower_strip(word)) THEN "fuzzy"
    ELSE "none"

\* the loop of line 246 with strict_mode = True
RECURSIVE detect_loop_strict(_, _, _)
detect_loop_strict(normalized_text, text_no_sep, abuse_words) ==
    IF abuse_words = <<>> THEN NoMatch
    ELSE LET tier == detect_word_strict(normalized_text, text_no_sep,
                                        Head(abuse_words))
         IN  IF tier # "none"
             THEN [matched |-> TRUE, word |-> lower_strip(Head(abuse_words)),
                   tier |-> tier]
             ELSE detect_loop_strict(normalized_text, text_no_sep,
                                     Tail(abuse_words))

\* the fuzzy tier entered whatever strict_mode is
detect_abuse_strict_mode_ignored(text, abuse_words, strict_mode) ==
    IF text = <<>> \/ abuse_words = <<>> THEN NoMatch
    ELSE detect_loop_strict(normalize_text(text),
                            remove_separators(normalize_text(text)), abuse_words)

\* detect_abuse, lines 227-281, with its third argument
detect_abuse_strict_mode(text, abuse_words, strict_mode) ==
    IF text = <<>> \/ abuse_words = <<>> THEN NoMatch
    ELSE IF strict_mode
    THEN detect_loop_strict(normalize_text(text),
                            remove_separators(normalize_text(text)), abuse_words)
    ELSE detect_loop(normalize_text(text),
                     remove_separators(normalize_text(text)), abuse_words)

---------------------------------------------------------------------------
(* plugins/admins/anti_abuse.py: handle_message_abuse *)

NoMsg == Msg("none", "none", -1, -1, -1)

\* no call of the detector is being looked at
NoCall ==
    [pc |-> "none", text |-> <<>>, abuse_words |-> <<>>, normalized |-> <<>>,
     renormalized |-> <<>>, result |-> NoMatch, detected |-> <<>>,
     patterns |-> <<>>, lenient |-> NoMatch, strict |-> NoMatch,
     leetspeak |-> <<>>]

Idle ==
    [pc |-> "idle", chat |-> 0, user |-> 0, matched_word |-> NoWord,
     warning_limit |-> 0, action |-> "none", user_warns |-> <<>>,
     warnings |-> 0, deleted |-> FALSE, warning_text |-> NoMsg,
     punish |-> "none", failed |-> {}]

\* AntiAbuseManager.is_admin, lines 58-67: the member's status in the chat is
\* ADMINISTRATOR or OWNER; user 2 is an administrator of every chat
is_admin(chat_id, user_id) == user_id = 2

\* no call on the word list is running in this slot
Quiet ==
    [pc |-> "idle", word |-> <<>>, added |-> "none", text |-> <<>>,
     words_list |-> <<>>, result |-> NoMatch]

\* The module globals once VIVAANXMUSIC/__init__.py initialize_security_systems
\* (lines 41-70) has run before the plugin is imported: abuse_words_db of
\* mongo/abuse_words_db.py and abuse_detector of utils/abuse_detector.py are
\* set, and anti_abuse.py has bound both (lines 36-43 and 48-53).
\*   pc               where __main__.init() stands
\*   abuse_words_db   the global of mongo/abuse_words_db.py, line 678
\*   abuse_detector   the global of utils/abuse_detector.py, line 413: the
\*                    number of the instance, 0 for None
\*   created          AbuseDetector instances constructed so far
\*   plugin_db        abuse_words_db as anti_abuse.py bound it at its import
\*   plugin_detector  AntiAbuseManager.detector, 0 before the import
\*   returned         the instances get_detector() has returned
Initialised ==
    [pc |-> "running", abuse_words_db |-> "AbuseWordsDB", abuse_detector |-> 1,
     created |-> 1, plugin_db |-> "AbuseWordsDB", plugin_detector |-> 1,
     returned |-> {1}]

\* the fields of a config document that the admin commands set one by one
ConfigFields == {"enabled", "warning_limit", "action"}

\* no /antiabuse strict command is running
NoCmd ==
    [pc |-> "idle", chat |-> 0, strict |-> FALSE, config |-> DefaultConfig,
     fields |-> {}]

Admins == {1}           \* admins whose /antiabuse strict may be in flight
Keys == {1, 2}          \* task keys f"{chat_id}_{warning_msg_id}"
Msgs == {1, 2}          \* message ids of the chat watched by anti_edit.py
EditTexts == {1, 2}     \* texts a message may have
EditProcs == {1, 2}     \* invocations of handle_edited_message in flight
EditChat == 1

\* no edit is being handled
NoEdit == [pc |-> "idle", msg |-> 0, user |-> 0, text |-> 0, outcome |-> "none"]

\* The state of the plugins after construction: no config document
\* (get_config answers its defaults), AntiAbuseManager.__init__ (lines 50-55)
\* and AntiEditManager.__init__ (lines 77-79) with empty maps and sets,
\* original_messages empty (line 71), no antiedit_config document and no
\* authorized user.  Message 1 was sent before the bot started, message 2 is
\* not sent yet.
PluginsInit ==
    /\ config_fields = [c \in Chats |-> {}]
    /\ config_strict = [c \in Chats |-> FALSE]
    /\ cmds = [a \in Admins |-> NoCmd]
    /\ warning_delete_tasks = [k \in Keys |-> 0]
    /\ tasks = <<>>
    /\ antiedit_config = [c \in {EditChat} |-> FALSE]
    /\ authorized_collection = {}
    /\ processing_edits = {}
    /\ original_messages = [m \in Msgs |-> 0]
    /\ messages = [m \in Msgs |->
                      [state |-> IF m = 1 THEN "there" ELSE "unsent", text |-> 1]]
    /\ edits = [p \in EditProcs |-> NoEdit]

Init ==
    /\ warns = <<>>
    /\ config = [c \in Chats |-> DefaultConfig]
    /\ clock = 0
    /\ h = [p \in Procs |-> Idle]
    /\ last = [op |-> "none", chat |-> 0]
    /\ det = NoCall
    /\ abuse_words_collection = <<>>
    /\ abuse_logs_collection = 0
    /\ mods = Initialised
    /\ calls = [p \in Procs |-> Quiet]
    /\ PluginsInit

\* handlers that may still record an offense
Pending == {q \in Procs : h[q].pc \in {"config", "detect", "find", "write"}}

\* lines 368-380: a message arrives; should_detect_abuse (lines 73-104) returns
\* False if the plugin's abuse_words_db is None, else reads the config
ShouldDetect_always(p, c, u, w, max) ==
    /\ h[p].pc = "idle"
    /\ clock + Cardinality(Pending) < max
    /\ h' = [h EXCEPT ![p] = [Idle EXCEPT
                !.chat = c, !.user = u, !.matched_word = w,
                !.pc = IF u # OWNER_ID THEN "config" ELSE "done"]]
    /\ UNCHANGED <<warns, config, clock, last, det, abuse_logs_collection, sys>>

ShouldDetect(p, c, u, w, max) ==
    /\ h[p].pc = "idle"
    /\ clock + Cardinality(Pending) < max
    /\ h' = [h EXCEPT ![p] = [Idle EXCEPT
                !.chat = c, !.user = u, !.matched_word = w,
                !.pc = IF /\ mods.plugin_db # "None"
                          /\ config[c].enabled
                          /\ u # OWNER_ID
                       THEN "config" ELSE "done"]]
    /\ UNCHANGED <<warns, config, clock, last, det, abuse_logs_collection, sys>>

\* lines 388-395: get_config, the limit and the action of this run
GetConfig(p) ==
    /\ h[p].pc = "config"
    /\ h' = [h EXCEPT ![p].warning_limit = config[h[p].chat].warning_limit,
                      ![p].action = config[h[p].chat].action,
                      ![p].pc = "detect"]
    /\ UNCHANGED <<warns, config, clock, last, det, abuse_logs_collection, sys>>

\* lines 397-414: detect_abuse_in_message; on a match delete_messages is requested
Detect_unless_warn_only(p) ==
    /\ h[p].pc = "detect"
    /\ h' = [h EXCEPT ![p].deleted = (h[p].matched_word # NoWord
                                        /\ h[p].action # "warn_only"),
                      ![p].pc = IF h[p].matched_word = NoWord
                                THEN "done" ELSE "find"]
    /\ UNCHANGED <<warns, config, clock, last, det, abuse_logs_collection, sys>>

Detect(p) ==
    /\ h[p].pc = "detect"
    /\ h' = [h EXCEPT ![p].deleted = (h[p].matched_word # NoWord),
                      ![p].pc = IF h[p].matched_word = NoWord
                                THEN "done" ELSE "find"]
    /\ UNCHANGED <<warns, config, clock, last, det, abuse_logs_collection, sys>>

\* add_warning, lines 375-378: find_one
AddWarningFind(p) ==
    /\ h[p].pc = "find"
    /\ h' = [h EXCEPT ![p].user_warns = find_one(warns, h[p].chat, h[p].user),
                      ![p].pc = "write"]
    /\ UNCHANGED <<warns, config, clock, last, det, abuse_logs_collection, sys>>

Offense(word, now) == [word |-> word, timestamp |-> now]

\* add_warning, lines 380-417: update_one or insert_one, and the return.  The
\* index on (chat_id, user_id) of create_indexes (line 51) is not unique, so
\* insert_one adds a second document for a pair that has one by now.
AddWarningWrite(p) ==
    /\ h[p].pc = "write"
    /\ clock' = clock + 1
    /\ warns' =
         IF h[p].user_warns # <<>>
         THEN update_one(warns, h[p].chat, h[p].user,
                         new_warnings(h[p].user_warns),
                         trim_offenses(Append(h[p].user_warns[1].offenses,
                                              Offense(h[p].matched_word, clock'))),
                         clock')
         ELSE Append(warns,
                     [chat_id |-> h[p].chat, user_id |-> h[p].user,
                      warnings |-> new_warnings(h[p].user_warns),
                      offenses |-> <<Offense(h[p].matched_word, clock')>>,
                      first_offense |-> clock', last_offense |-> clock'])
    /\ h' = [h EXCEPT ![p].warnings = new_warnings(h[p].user_warns),
                      ![p].pc = "respond"]
    /\ UNCHANGED <<config, last, det, abuse_logs_collection, sys>>

\* the count computed although the store raised
AddWarningFail_counted(p) ==
    /\ h[p].pc \in {"find", "write"}
    /\ h' = [h EXCEPT ![p].warnings = get_warnings(warns, h[p].chat, h[p].user) + 1,
                      ![p].failed = @ \cup {"add_warning"},
                      ![p].pc = "respond"]
    /\ UNCHANGED <<warns, config, clock, last, det, abuse_logs_collection, sys>>

\* add_warning, lines 418-420: a call of the store raised; the exception is
\* caught inside add_warning, which returns 0
AddWarningFail(p) ==
    /\ h[p].pc \in {"find", "write"}
    /\ h' = [h EXCEPT ![p].warnings = 0,
                      ![p].failed = @ \cup {"add_warning"},
                      ![p].pc = "respond"]
    /\ UNCHANGED <<warns, config, clock, last, det, abuse_logs_collection, sys>>

\* lines 433-471: send_warning_message, then should_take_action and
\* execute_action, on the count add_warning returned
Respond(hp) ==
    [hp EXCEPT !.warning_text =
                   get_warning_message(hp.warnings, hp.warning_limit, hp.action),
               !.punish =
                   IF should_take_action(hp.warnings, hp.warning_limit, hp.action)
                   THEN execute_action(hp.action) ELSE "none",
               !.pc = "done"]

\* lines 424-471: log_abuse_detection (insert_one, abuse_words_db.py lines
\* 513-549), then the warning and the escalation; the warning store is not
\* touched
Escalate(p) ==
    /\ h[p].pc = "respond"
    /\ h' = [h EXCEPT ![p] = Respond(h[p])]
    /\ abuse_logs_collection' = abuse_logs_collection + 1
    /\ UNCHANGED <<warns, config, clock, last, det, sys>>

\* the same with insert_one raising inside log_abuse_detection, which catches
\* the exception and returns False (lines 547-549); the handler goes on
EscalateLogFail_return(p) ==
    /\ h[p].pc = "respond"
    /\ h' = [h EXCEPT ![p].failed = @ \cup {"log_abuse_detection"},
                      ![p].pc = "done"]
    /\ UNCHANGED <<warns, config, clock, last, det, abuse_logs_collection, sys>>

EscalateLogFail(p) ==
    /\ h[p].pc = "respond"
    /\ h' = [h EXCEPT ![p] = [Respond(h[p]) EXCEPT
                                 !.failed = @ \cup {"log_abuse_detection"}]]
    /\ UNCHANGED <<warns, config, clock, last, det, abuse_logs_collection, sys>>

\* the coroutine has returned; the slot takes the next message
Finish(p) ==
    /\ h[p].pc = "done"
    /\ h' = [h EXCEPT ![p] = Idle]
    /\ UNCHANGED <<warns, config, clock, last, det, abuse_logs_collection, sys>>

---------------------------------------------------------------------------
(* abuse_words_db.py: the store operations called directly *)

\* clear_warnings, lines 444-468
ClearWarnings(c, u) ==
    /\ warns' = delete_one(warns, c, u)
    /\ UNCHANGED <<config, clock, h, last, det, abuse_logs_collection, sys>>

\* reset_chat_warnings, lines 652-671
ResetChatWarnings(c) ==
    /\ warns' = delete_many(warns, c)
    /\ last' = [op |-> "reset_chat_warnings", chat |-> c]
    /\ UNCHANGED <<config, clock, h, det, abuse_logs_collection, sys>>

\* set_action, lines 144-176
SetAction(c, a) ==
    /\ a \in {"mute", "ban", "delete_only", "warn_only"}
    /\ config' = [config EXCEPT ![c].action = a]
    /\ UNCHANGED <<warns, clock, h, last, det, abuse_logs_collection, sys>>

\* set_config, lines 117-142: $set of the whole document with upsert; no field
\* is validated
SetConfig(c, cfg) ==
    /\ config' = [config EXCEPT ![c] = cfg]
    /\ UNCHANGED <<warns, clock, h, last, det, abuse_logs_collection, sys>>

\* set_warning_limit, lines 178-208
SetWarningLimit(c, l) ==
    /\ ~(l < 0)
    /\ config' = [config EXCEPT ![c].warning_limit = l]
    /\ UNCHANGED <<warns, clock, h, last, det, abuse_logs_collection, sys>>

\* toggle_enabled, lines 210-236
ToggleEnabled(c, b) ==
    /\ config' = [config EXCEPT ![c].enabled = b]
    /\ UNCHANGED <<warns, clock, h, last, det, abuse_logs_collection, sys>>

---------------------------------------------------------------------------
(* __main__.py: the startup sequence init() *)

\* the interpreter has loaded mongo/abuse_words_db.py and utils/abuse_detector.py:
\* both globals are None (lines 678 and 413); the plugin is not imported yet
Unloaded ==
    [pc |-> "start", abuse_words_db |-> "None", abuse_detector |-> 0,
     created |-> 0, plugin_db |-> "unbound", plugin_detector |-> 0,
     returned |-> {}]

\* get_detector, abuse_detector.py lines 431-443: the global, constructed at
\* the first call
get_detector(m) ==
    IF m.abuse_detector = 0
    THEN [m EXCEPT !.created = @ + 1, !.abuse_detector = m.created + 1,
                   !.returned = @ \cup {m.created + 1}]
    ELSE [m EXCEPT !.returned = @ \cup {m.abuse_detector}]

\* init(), lines 154-160: initialize_security_systems of __main__.py (lines
\* 101-117) calls initialize_edit_tracker_database and load_default_abuse_words
\* (lines 27-80), which imports abuse_words_db, None, and whose calls on it
\* raise into its own except branch.  init_abuse_words_db is not called.
InitializeSecuritySystems ==
    /\ mods.pc = "start"
    /\ mods' = [mods EXCEPT !.pc = "plugins"]
    /\ UNCHANGED <<plugins, warns, config, clock, h, last, det, abuse_logs_collection,
                   abuse_words_collection, calls>>

\* init(), lines 183-219: the plugins are imported.  anti_abuse.py binds
\* abuse_words_db to the value the global has now (lines 36-43) and constructs
\* AntiAbuseManager, whose detector is get_detector() (lines 48-53, 352).
LoadPlugins ==
    /\ mods.pc = "plugins"
    /\ mods' = [get_detector(mods) EXCEPT
                    !.plugin_db = mods.abuse_words_db,
                    !.plugin_detector = get_detector(mods).abuse_detector,
                    !.pc = "running"]
    /\ UNCHANGED <<plugins, warns, config, clock, h, last, det, abuse_logs_collection,
                   abuse_words_collection, calls>>

\* a call of get_detector() from anywhere
GetDetector ==
    /\ mods' = get_detector(mods)
    /\ UNCHANGED <<plugins, warns, config, clock, h, last, det, abuse_logs_collection,
                   abuse_words_collection, calls>>

---------------------------------------------------------------------------
(* abuse_words_db.py: the word list, and detect_abuse_in_message of the plugin *)

\* the words of the documents, in the order of the collection
WordsOf(coll) == [i \in DOMAIN coll |-> coll[i].word]

\* find_one({"word": word}) is not None
word_exists(coll, word) == \E i \in DOMAIN coll : coll[i].word = word

\* insert_one without the index of line 46
insert_one_nonunique(coll, word) == Append(coll, [word |-> word])

\* insert_one under the unique index on "word" (create_indexes, line 46):
\* DuplicateKeyError leaves the collection as it is
insert_one(coll, word) ==
    IF word_exists(coll, word) THEN coll ELSE Append(coll, [word |-> word])

\* delete_one({"word": word})
delete_one_word(coll, word) ==
    IF word_exists(coll, word)
    THEN RemoveAt(coll, CHOOSE i \in DOMAIN coll :
                     /\ coll[i].word = word
                     /\ \A j \in 1..(i - 1) : coll[j].word # word)
    ELSE coll

\* add_abuse_word, lines 262-272: the empty word, then find_one
AddAbuseWordFind(p, word) ==
    /\ calls[p].pc = "idle"
    /\ LET word_lower == lower_strip(word)
       IN  calls' = [calls EXCEPT ![p] =
               [Quiet EXCEPT
                   !.word = word_lower,
                   !.added = IF word_lower = <<>>
                                \/ word_exists(abuse_words_collection, word_lower)
                             THEN "False" ELSE "none",
                   !.pc = IF word_lower = <<>>
                             \/ word_exists(abuse_words_collection, word_lower)
                          THEN "added" ELSE "insert"]]
    /\ UNCHANGED <<plugins, warns, config, clock, h, last, det, abuse_logs_collection,
                   abuse_words_collection, mods>>

\* add_abuse_word, lines 274-287: insert_one; True, or False when it raised
AddAbuseWordInsert(p) ==
    /\ calls[p].pc = "insert"
    /\ abuse_words_collection' = insert_one(abuse_words_collection, calls[p].word)
    /\ calls' = [calls EXCEPT
                    ![p].added = IF abuse_words_collection' = abuse_words_collection
                                 THEN "False" ELSE "True",
                    ![p].pc = "added"]
    /\ UNCHANGED <<plugins, warns, config, clock, h, last, det, abuse_logs_collection, mods>>

\* remove_abuse_word, lines 289-312
RemoveAbuseWord(word) ==
    /\ abuse_words_collection' =
           delete_one_word(abuse_words_collection, lower_strip(word))
    /\ UNCHANGED <<plugins, warns, config, clock, h, last, det, abuse_logs_collection,
                   mods, calls>>

\* detect_abuse_in_message, lines 124-134: get_all_abuse_words (lines 314-330)
\* gives the documents of the collection as a list
GetAllAbuseWords(p, text) ==
    /\ calls[p].pc = "idle"
    /\ text # <<>>
    /\ mods.plugin_detector # 0
    /\ mods.plugin_db # "None"
    /\ calls' = [calls EXCEPT ![p] =
           [Quiet EXCEPT !.text = text,
                         !.words_list = WordsOf(abuse_words_collection),
                         !.pc = IF abuse_words_collection = <<>>
                                THEN "scanned" ELSE "scan"]]
    /\ UNCHANGED <<plugins, warns, config, clock, h, last, det, abuse_logs_collection,
                   abuse_words_collection, mods>>

\* the scan reading the collection as it is when the scan runs
DetectAbuseInMessage_live(p) ==
    /\ calls[p].pc = "scan"
    /\ calls' = [calls EXCEPT
                    ![p].result = detect_abuse(calls[p].text,
                                               WordsOf(abuse_words_collection)),
                    ![p].pc = "scanned"]
    /\ UNCHANGED <<plugins, warns, config, clock, h, last, det, abuse_logs_collection,
                   abuse_words_collection, mods>>

\* detect_abuse_in_message, lines 136-143: detect_abuse on the list fetched
DetectAbuseInMessage(p) ==
    /\ calls[p].pc = "scan"
    /\ calls' = [calls EXCEPT
                    ![p].result = detect_abuse(calls[p].text, calls[p].words_list),
                    ![p].pc = "scanned"]
    /\ UNCHANGED <<plugins, warns, config, clock, h, last, det, abuse_logs_collection,
                   abuse_words_collection, mods>>

\* the call has returned
Return(p) ==
    /\ calls[p].pc \in {"added", "scanned"}
    /\ calls' = [calls EXCEPT ![p] = Quiet]
    /\ UNCHANGED <<plugins, warns, config, clock, h, last, det, abuse_logs_collection,
                   abuse_words_collection, mods>>

---------------------------------------------------------------------------
(* Specifications *)

Texts == Words \cup {NoWord}

\* one segment of a running handler
Step(p) ==
    \/ GetConfig(p)
    \/ Detect(p)
    \/ AddWarningFind(p)
    \/ AddWarningWrite(p)
    \/ Escalate(p)

\* Handlers run concurrently on every chat, every message matching a banned
\* term; admins clear the warnings of a user or of a chat.
Next ==
    \/ \E p \in Procs, c \in Chats, u \in Users, w \in Words :
           ShouldDetect(p, c, u, w, MaxMsgs)
    \/ \E p \in Procs : Step(p)
    \/ \E p \in Procs : Finish(p)
    \/ \E c \in Chats, u \in Users : ClearWarnings(c, u)
    \/ \E c \in Chats : ResetChatWarnings(c)

Spec == Init /\ [][Next]_vars

\* Concurrent handlers and no reset: every invocation stays visible once done.
IncNext ==
    \/ \E p \in Procs, c \in Chats, u \in Users, w \in Texts :
           ShouldDetect(p, c, u, w, MaxMsgs)
    \/ \E p \in Procs : Step(p)

IncSpec == Init /\ [][IncNext]_vars

\* One operation at a time on one chat: a handler runs to its end before the
\* next message or admin command is taken.
AllIdle == \A p \in Procs : h[p].pc = "idle"

SeqNext ==
    \/ \E p \in SeqProcs, c \in SeqChats, u \in SeqUsers, w \in Texts :
           ShouldDetect(p, c, u, w, MaxSeqMsgs)
    \/ \E p \in SeqProcs : Step(p)
    \/ \E p \in SeqProcs : Finish(p)
    \/ \E c \in SeqChats, u \in SeqUsers : AllIdle /\ ClearWarnings(c, u)
    \/ \E c \in SeqChats, a \in Actions : AllIdle /\ SetAction(c, a)
    \/ \E c \in SeqChats, l \in Limits : AllIdle /\ SetWarningLimit(c, l)
    \/ \E c \in SeqChats, b \in BOOLEAN : AllIdle /\ ToggleEnabled(c, b)

SeqSpec == Init /\ [][SeqNext]_vars

\* Concurrent handlers and clears on one (chat, user) pair.
RaceNext ==
    \/ \E p \in Procs, c \in RaceChats, u \in RaceUsers, w \in Words :
           ShouldDetect(p, c, u, w, MaxRaceMsgs)
    \/ \E p \in Procs : Step(p)
    \/ \E p \in Procs : Finish(p)
    \/ \E c \in RaceChats, u \in RaceUsers : ClearWarnings(c, u)

RaceSpec == Init /\ [][RaceNext]_vars

\* One operation at a time while the store may fail: add_warning and
\* log_abuse_detection may raise inside, and set_config writes any document.
Configs ==
    [enabled : BOOLEAN, warning_limit : Limits,
     action : Actions \cup {InvalidAction}, exclude_admins : {TRUE}]

FaultNext ==
    \/ \E p \in SeqProcs, c \in SeqChats, u \in SeqUsers, w \in Texts :
           /\ abuse_logs_collection < MaxFaultMsgs
           /\ ShouldDetect(p, c, u, w, MaxFaultMsgs)
    \/ \E p \in SeqProcs : Step(p)
    \/ \E p \in SeqProcs : AddWarningFail(p)
    \/ \E p \in SeqProcs : EscalateLogFail(p)
    \/ \E p \in SeqProcs : Finish(p)
    \/ \E c \in SeqChats, cfg \in Configs : AllIdle /\ SetConfig(c, cfg)

FaultSpec == Init /\ [][FaultNext]_vars

\* The startup sequence of __main__.py, then messages of every user.
StartInit ==
    /\ warns = <<>>
    /\ config = [c \in Chats |-> DefaultConfig]
    /\ clock = 0
    /\ h = [p \in Procs |-> Idle]
    /\ last = [op |-> "none", chat |-> 0]
    /\ det = NoCall
    /\ abuse_words_collection = <<>>
    /\ abuse_logs_collection = 0
    /\ mods = Unloaded
    /\ calls = [p \in Procs |-> Quiet]
    /\ PluginsInit

StartNext ==
    \/ InitializeSecuritySystems
    \/ LoadPlugins
    \/ GetDetector
    \/ \E p \in Procs, c \in Chats, u \in Users \cup {OWNER_ID}, w \in Texts :
           /\ mods.pc = "running"
           /\ ShouldDetect(p, c, u, w, MaxMsgs)
    \/ \E p \in Procs : Finish(p)

StartSpec == StartInit /\ [][StartNext]_vars

\* The word list: concurrent add_abuse_word and detect_abuse_in_message calls,
\* and remove_abuse_word.
WordArgs ==
    {<<"i", "t">>, <<"I", "T">>, <<" ", "i", "t", " ">>, <<"a", "s", "s">>,
     <<>>, <<" ">>}

ScanTexts == {<<"h", "i", "t">>, <<"c", "l", "a", "s", "s">>, <<"o", "k">>}

WordNext ==
    \/ \E p \in Procs, word \in WordArgs : AddAbuseWordFind(p, word)
    \/ \E p \in Procs : AddAbuseWordInsert(p)
    \/ \E word \in WordArgs : RemoveAbuseWord(word)
    \/ \E p \in Procs, text \in ScanTexts : GetAllAbuseWords(p, text)
    \/ \E p \in Procs : DetectAbuseInMessage(p)
    \/ \E p \in Procs : Return(p)

WordSpec == Init /\ [][WordNext]_vars

\* The detector on its own: normalize_text twice, detect_abuse and
\* detect_multiple applied to a text and a list of banned terms.

\* the sequences over S of length lo..hi
SeqsOf(S, lo, hi) == UNION {[1..n -> S] : n \in lo..hi}

Term_it == <<"i", "t">>
Term_ass == <<"a", "s", "s">>
Term_spam == <<"s", "p", "a", "m">>
Term_idiot == <<"i", "d", "i", "o", "t">>
Text_1d10t == <<"1", "d", "1", "0", "t">>
Text_spat == <<"s", "p", "a", "t">>
Text_idiom == <<"i", "d", "i", "o", "m">>
Text_hello == <<"h", "e", "l", "l", "o", " ", "w", "o", "r", "l", "d", ",", " ",
                "n", "i", "c", "e", " ", "d", "a", "y">>
ThisMessage == <<" ", "t", "h", "i", "s", " ", "m", "e", "s", "s", "a", "g", "e">>
Term_long == [i \in 1..LongTermLen |-> IF i % 2 = 1 THEN "x" ELSE "y"]

\* the single-position evasion transforms of a term: a separator put at one
\* place, the doubling of one character, a leetspeak replacement of one character
Separated(t) ==
    {SubSeq(t, 1, k) \o <<sep>> \o SubSeq(t, k + 1, Len(t)) :
        k \in 0..Len(t), sep \in separators}

Doubled(t) == {Substitute(t, i, <<t[i], t[i]>>) : i \in DOMAIN t}

Leeted(t) ==
    {Substitute(t, pk[1], leetspeak_map(t[pk[1]])[pk[2]]) :
        pk \in {qk \in (DOMAIN t) \X (1..5) : qk[2] <= Len(leetspeak_map(t[qk[1]]))}}

Transforms(t) == Separated(t) \cup Doubled(t) \cup Leeted(t)

\* a term with words around it
Embedded(t) ==
    {pre \o t \o post :
        pre \in {<<>>, <<"c", "l">>, <<"k">>, <<"a", " ">>},
        post \in {<<>>, <<"i", "g", "n", "m", "e", "n", "t">>, <<"e">>, <<" ", "x">>}}

\* the calls looked at: <<text, abuse_words>>
DetInputs ==
    UNION {{<<x, <<t>>>> : x \in Embedded(t)} : t \in {Term_ass, Term_it}}
    \cup UNION {{<<x, <<t>>>> : x \in Transforms(t)} : t \in {Term_it, Term_ass, Term_spam}}
    \cup {<<Text_1d10t, <<Term_idiot>>>>, <<Text_1d10t, <<Term_spam, Term_idiot>>>>,
          <<<<>>, <<Term_long>>>>}
    \cup {<<x, <<t>>>> :
             x \in {Text_spat, <<"a", " ">> \o Text_spat \o <<"!">>},
             t \in {Term_spam, Term_it}}
    \cup {<<Text_idiom, <<Term_ass, Term_idiot>>>>}
    \cup {<<x, ws>> :
             x \in {<<"o", "k">>, <<" ">>, <<"i", "t">>},
             ws \in {<<<<>>>>, <<<<" ">>>>, <<<<" ", "\t">>, Term_it>>,
                     <<Term_it, <<>>>>}}
    \cup {<<Join(<<sep>>, t) \o ThisMessage, <<t>>>> :
             t \in {Term_it, Term_ass, Term_spam}, sep \in separators}
    \cup {<<Text_hello, <<t>>>> : t \in SeqsOf({"o", "w", "d", "n", "x"}, 1, MaxTermLen)}
    \cup {<<x, <<>>>> :
             x \in SeqsOf({"a", "A", " ", ".", "U+2122", "U+200B", "U+FF21", "U+00A8"},
                          0, MaxTextLen)}
    \cup {<<x, ws>> :
             x \in {Term_spam \o <<" ">> \o Term_it, Term_it \o <<" ">> \o Term_ass,
                    <<"c", "l", "a", "s", "s">>, <<"x", "y", "z">>},
             ws \in SeqsOf({Term_it, Term_ass, Term_spam}, 1, MaxWords)}

DetInit ==
    /\ warns = <<>>
    /\ config = [c \in Chats |-> DefaultConfig]
    /\ clock = 0
    /\ h = [p \in Procs |-> Idle]
    /\ last = [op |-> "none", chat |-> 0]
    /\ abuse_words_collection = <<>>
    /\ abuse_logs_collection = 0
    /\ mods = Initialised
    /\ calls = [p \in Procs |-> Quiet]
    /\ PluginsInit
    /\ \E inp \in DetInputs :
          det = [NoCall EXCEPT !.pc = "call", !.text = inp[1], !.abuse_words = inp[2]]

\* normalize_text(text)
NormalizeText ==
    /\ det.pc = "call"
    /\ det' = [det EXCEPT !.normalized = normalize_text(det.text),
                          !.pc = "normalized"]
    /\ UNCHANGED <<warns, config, clock, h, last, abuse_logs_collection, sys>>

\* normalize_text of what normalize_text returned
NormalizeAgain ==
    /\ det.pc = "normalized"
    /\ det' = [det EXCEPT !.renormalized = normalize_text(det.normalized),
                          !.pc = "renormalized"]
    /\ UNCHANGED <<warns, config, clock, h, last, abuse_logs_collection, sys>>

\* detect_abuse(text, abuse_words)
DetectAbuse ==
    /\ det.pc = "renormalized"
    /\ det' = [det EXCEPT !.result = detect_abuse(det.text, det.abuse_words),
                          !.pc = "detected"]
    /\ UNCHANGED <<warns, config, clock, h, last, abuse_logs_collection, sys>>

\* detect_multiple(text, abuse_words)
DetectMultiple ==
    /\ det.pc = "detected"
    /\ det' = [det EXCEPT !.detected = detect_multiple(det.text, det.abuse_words),
                          !.pc = "done"]
    /\ UNCHANGED <<warns, config, clock, h, last, abuse_logs_collection, sys>>

\* generate_patterns(word) for each banned term of the call
GeneratePatterns ==
    /\ det.pc = "done"
    /\ det' = [det EXCEPT !.patterns = [i \in DOMAIN det.abuse_words |->
                                           generate_patterns(det.abuse_words[i])],
                          !.pc = "generated"]
    /\ UNCHANGED <<warns, config, clock, h, last, abuse_logs_collection, sys>>

\* detect_abuse(text, abuse_words, strict_mode=False)
DetectAbuseLenient ==
    /\ det.pc = "generated"
    /\ det' = [det EXCEPT !.lenient = detect_abuse_strict_mode(det.text,
                                          det.abuse_words, FALSE),
                          !.pc = "lenient"]
    /\ UNCHANGED <<warns, config, clock, h, last, abuse_logs_collection, sys>>

\* detect_abuse(text, abuse_words, strict_mode=True)
DetectAbuseStrict ==
    /\ det.pc = "lenient"
    /\ det' = [det EXCEPT !.strict = detect_abuse_strict_mode(det.text,
                                         det.abuse_words, TRUE),
                          !.pc = "strict"]
    /\ UNCHANGED <<warns, config, clock, h, last, abuse_logs_collection, sys>>

\* generate_leetspeak(word) for each banned term of the call, lower-cased and
\* stripped as generate_patterns does (line 123)
GenerateLeetspeak ==
    /\ det.pc = "strict"
    /\ det' = [det EXCEPT !.leetspeak = [i \in DOMAIN det.abuse_words |->
                              generate_leetspeak(lower_strip(det.abuse_words[i]))],
                          !.pc = "leetspeak"]
    /\ UNCHANGED <<warns, config, clock, h, last, abuse_logs_collection, sys>>

DetNext ==
    \/ NormalizeText
    \/ NormalizeAgain
    \/ DetectAbuse
    \/ DetectMultiple
    \/ GeneratePatterns
    \/ DetectAbuseLenient
    \/ DetectAbuseStrict
    \/ GenerateLeetspeak

DetSpec == DetInit /\ [][DetNext]_vars

---------------------------------------------------------------------------
(* plugins/admins/anti_abuse.py: antiabuse_command *)

\* what the admin commands leave alone
abuse == <<warns, clock, h, last, det, abuse_words_collection,
           abuse_logs_collection, mods, calls>>

AllFields == ConfigFields \cup {"strict_mode"}

\* get_config, abuse_words_db.py lines 87-106: the keys of the dict returned,
\* those of the document if there is one, those of the defaults otherwise
get_config_fields(fields) == IF fields = {} THEN AllFields ELSE fields

\* $set of the fields of a dict on a document (update_one, lines 131-135)
set_fields(doc, fields, values) ==
    [doc EXCEPT !.enabled = IF "enabled" \in fields THEN values.enabled ELSE @,
                !.warning_limit = IF "warning_limit" \in fields
                                  THEN values.warning_limit ELSE @,
                !.action = IF "action" \in fields THEN values.action ELSE @]

\* /antiabuse strict yes|no, lines 562-567: the admin check and
\* config = await abuse_words_db.get_config(chat_id)
StrictRead(a, c, strict) ==
    /\ cmds[a].pc = "idle"
    /\ cmds' = [cmds EXCEPT ![a] =
                   [pc |-> "read", chat |-> c, strict |-> strict,
                    config |-> config[c],
                    fields |-> get_config_fields(config_fields[c])]]
    /\ UNCHANGED <<config, config_fields, config_strict, abuse, delvars, editvars>>

\* lines 568-572: config["strict_mode"] = strict and set_config(chat_id, config),
\* the $set of every key of the dict read (abuse_words_db.py lines 118-142)
StrictWrite(a) ==
    /\ cmds[a].pc = "read"
    /\ config' = [config EXCEPT ![cmds[a].chat] =
                     set_fields(@, cmds[a].fields, cmds[a].config)]
    /\ config_strict' = [config_strict EXCEPT ![cmds[a].chat] = cmds[a].strict]
    /\ config_fields' = [config_fields EXCEPT ![cmds[a].chat] =
                            @ \cup cmds[a].fields \cup {"strict_mode"}]
    /\ cmds' = [cmds EXCEPT ![a] = NoCmd]
    /\ UNCHANGED <<abuse, delvars, editvars>>

\* /antiabuse action, lines 536-546: set_action (abuse_words_db.py lines
\* 144-176), the $set of action with upsert
AntiabuseAction(c, a) ==
    /\ a \in {"mute", "ban", "delete_only", "warn_only"}
    /\ config' = [config EXCEPT ![c].action = a]
    /\ config_fields' = [config_fields EXCEPT ![c] = @ \cup {"action"}]
    /\ UNCHANGED <<config_strict, cmds, abuse, delvars, editvars>>

\* /antiabuse limit, lines 548-560: set_warning_limit (lines 178-208)
AntiabuseLimit(c, l) ==
    /\ ~(l < 0)
    /\ config' = [config EXCEPT ![c].warning_limit = l]
    /\ config_fields' = [config_fields EXCEPT ![c] = @ \cup {"warning_limit"}]
    /\ UNCHANGED <<config_strict, cmds, abuse, delvars, editvars>>

\* /antiabuse enable and disable, lines 528-534: toggle_enabled (lines 210-236)
AntiabuseEnable(c, b) ==
    /\ config' = [config EXCEPT ![c].enabled = b]
    /\ config_fields' = [config_fields EXCEPT ![c] = @ \cup {"enabled"}]
    /\ UNCHANGED <<config_strict, cmds, abuse, delvars, editvars>>

\* The admin commands of one chat, with one /antiabuse strict in flight.
ConfChats == {1}
ConfActions == {"delete_only", "ban"}
ConfLimits == {3, 5}

ConfNext ==
    \/ \E a \in Admins, c \in ConfChats, strict \in BOOLEAN : StrictRead(a, c, strict)
    \/ \E a \in Admins : StrictWrite(a)
    \/ \E c \in ConfChats, a \in ConfActions : AntiabuseAction(c, a)
    \/ \E c \in ConfChats, l \in ConfLimits : AntiabuseLimit(c, l)
    \/ \E c \in ConfChats, b \in BOOLEAN : AntiabuseEnable(c, b)

ConfSpec == Init /\ [][ConfNext]_vars

---------------------------------------------------------------------------
(* plugins/admins/anti_abuse.py: schedule_warning_deletion *)

MaxTasks == 3           \* delete_warning tasks created

\* what the scheduling and its tasks leave alone
undeleted == <<config, abuse, confvars, editvars>>

\* schedule_warning_deletion, lines 196-224 (no await inside): the task under
\* the key, if any, is asked to cancel, a new task is created and put under
\* the key.  Task.cancel() of a task that has finished does nothing.
ScheduleWarningDeletion(k) ==
    /\ Len(tasks) < MaxTasks
    /\ LET old == warning_delete_tasks[k]
           cancelled == IF old # 0 /\ tasks[old].pc # "done"
                        THEN [tasks EXCEPT ![old].cancel = TRUE] ELSE tasks
       IN  tasks' = Append(cancelled, [key |-> k, pc |-> "created", cancel |-> FALSE])
    /\ warning_delete_tasks' = [warning_delete_tasks EXCEPT ![k] = Len(tasks) + 1]
    /\ UNCHANGED undeleted

\* delete_warning, line 213: the task runs up to asyncio.sleep
TaskStart(t) ==
    /\ tasks[t].pc = "created" /\ ~tasks[t].cancel
    /\ tasks' = [tasks EXCEPT ![t].pc = "sleeping"]
    /\ UNCHANGED <<warning_delete_tasks, undeleted>>

\* a task cancelled before its first step: CancelledError is thrown into the
\* coroutine before its try statement is entered, the finally does not run
TaskCancelledEarly(t) ==
    /\ tasks[t].pc = "created" /\ tasks[t].cancel
    /\ tasks' = [tasks EXCEPT ![t].pc = "done"]
    /\ UNCHANGED <<warning_delete_tasks, undeleted>>

\* lines 213-214: the sleep is over, client.delete_messages is awaited
SleepElapsed(t) ==
    /\ tasks[t].pc = "sleeping" /\ ~tasks[t].cancel
    /\ tasks' = [tasks EXCEPT ![t].pc = "deleting"]
    /\ UNCHANGED <<warning_delete_tasks, undeleted>>

\* lines 216-220: CancelledError is raised at the await the task is at, the
\* bare except swallows it, and the finally deletes whatever is under the key
TaskCancelled(t) ==
    /\ tasks[t].pc \in {"sleeping", "deleting"} /\ tasks[t].cancel
    /\ tasks' = [tasks EXCEPT ![t].pc = "done"]
    /\ warning_delete_tasks' = [warning_delete_tasks EXCEPT ![tasks[t].key] = 0]
    /\ UNCHANGED undeleted

\* lines 214-220: delete_messages has returned or raised; the finally deletes
\* whatever is under the key
TaskFinish(t) ==
    /\ tasks[t].pc = "deleting" /\ ~tasks[t].cancel
    /\ tasks' = [tasks EXCEPT ![t].pc = "done"]
    /\ warning_delete_tasks' = [warning_delete_tasks EXCEPT ![tasks[t].key] = 0]
    /\ UNCHANGED undeleted

DelNext ==
    \/ \E k \in Keys : ScheduleWarningDeletion(k)
    \/ \E t \in DOMAIN tasks : TaskStart(t)
    \/ \E t \in DOMAIN tasks : TaskCancelledEarly(t)
    \/ \E t \in DOMAIN tasks : SleepElapsed(t)
    \/ \E t \in DOMAIN tasks : TaskCancelled(t)
    \/ \E t \in DOMAIN tasks : TaskFinish(t)

DelSpec == Init /\ [][DelNext]_vars

---------------------------------------------------------------------------
(* plugins/admins/anti_edit.py: handle_edited_message *)

\* what the anti-edit plugin leaves alone
unedited == <<config, abuse, confvars, delvars>>

\* message.from_user.id of a message of the chat
author(m) == m

\* line 252: edit_key = f"{chat_id}:{message_id}:{user_id}"
edit_key(m) == <<EditChat, m, author(m)>>

\* is_actual_text_edit, lines 143-198: without a stored original any message
\* with a text counts as edited, with one the texts are compared
is_actual_text_edit(m, text) ==
    IF original_messages[m] = 0 THEN TRUE ELSE original_messages[m] # text

\* store_new_message, lines 342-362: a new message of the chat is stored
StoreNewMessage(m, t) ==
    /\ messages[m].state = "unsent"
    /\ messages' = [messages EXCEPT ![m] = [state |-> "there", text |-> t]]
    /\ original_messages' = [original_messages EXCEPT ![m] = t]
    /\ UNCHANGED <<antiedit_config, authorized_collection, processing_edits,
                   edits, unedited>>

\* handle_edited_message, lines 235-258, for an edited-message event of
\* message m, now with text t: the handling ends at once for an event that is
\* no text edit and for a key that is being processed, and goes on to
\* should_delete_edit otherwise, with the key in processing_edits
HandleEditedMessage(p, m, t) ==
    /\ edits[p].pc = "idle"
    /\ messages[m].state = "there"
    /\ messages' = [messages EXCEPT ![m].text = t]
    /\ IF ~is_actual_text_edit(m, t)
       THEN /\ edits' = [edits EXCEPT ![p] =
                   [pc |-> "done", msg |-> m, user |-> author(m), text |-> t,
                    outcome |-> "ignored"]]
            /\ UNCHANGED processing_edits
       ELSE IF edit_key(m) \in processing_edits
       THEN /\ edits' = [edits EXCEPT ![p] =
                   [pc |-> "done", msg |-> m, user |-> author(m), text |-> t,
                    outcome |-> "skipped"]]
            /\ UNCHANGED processing_edits
       ELSE /\ edits' = [edits EXCEPT ![p] =
                   [pc |-> "enabled", msg |-> m, user |-> author(m), text |-> t,
                    outcome |-> "none"]]
            /\ processing_edits' = processing_edits \cup {edit_key(m)}
    /\ UNCHANGED <<antiedit_config, authorized_collection, original_messages,
                   unedited>>

\* should_delete_edit, lines 217-218, and lines 262-269 of the handler:
\* is_antiedit_enabled has answered; if it is off the edit is allowed, the
\* new text is stored and the key is discarded (finally)
IsAntieditEnabled_keep(p) ==
    /\ edits[p].pc = "enabled"
    /\ IF antiedit_config[EditChat]
       THEN /\ edits' = [edits EXCEPT ![p].pc = "authorized"]
            /\ UNCHANGED <<original_messages, processing_edits>>
       ELSE /\ edits' = [edits EXCEPT ![p].pc = "done", ![p].outcome = "allowed"]
            /\ original_messages' =
                   [original_messages EXCEPT ![edits[p].msg] = edits[p].text]
            /\ UNCHANGED processing_edits
    /\ UNCHANGED <<antiedit_config, authorized_collection, messages, unedited>>

IsAntieditEnabled(p) ==
    /\ edits[p].pc = "enabled"
    /\ IF antiedit_config[EditChat]
       THEN /\ edits' = [edits EXCEPT ![p].pc = "authorized"]
            /\ UNCHANGED <<original_messages, processing_edits>>
       ELSE /\ edits' = [edits EXCEPT ![p].pc = "done", ![p].outcome = "allowed"]
            /\ original_messages' =
                   [original_messages EXCEPT ![edits[p].msg] = edits[p].text]
            /\ processing_edits' = processing_edits \ {edit_key(edits[p].msg)}
    /\ UNCHANGED <<antiedit_config, authorized_collection, messages, unedited>>

\* should_delete_edit, lines 221-225, and lines 262-269: is_authorized_user
\* has answered
IsAuthorizedUser(p) ==
    /\ edits[p].pc = "authorized"
    /\ IF <<EditChat, edits[p].user>> \in authorized_collection
       THEN /\ edits' = [edits EXCEPT ![p].pc = "done", ![p].outcome = "allowed"]
            /\ original_messages' =
                   [original_messages EXCEPT ![edits[p].msg] = edits[p].text]
            /\ processing_edits' = processing_edits \ {edit_key(edits[p].msg)}
       ELSE /\ edits' = [edits EXCEPT ![p].pc = "warn"]
            /\ UNCHANGED <<original_messages, processing_edits>>
    /\ UNCHANGED <<antiedit_config, authorized_collection, messages, unedited>>

\* lines 274-286: the warning is sent, the handler sleeps EDIT_WARNING_TIME
ReplyText(p) ==
    /\ edits[p].pc = "warn"
    /\ edits' = [edits EXCEPT ![p].pc = "sleep"]
    /\ UNCHANGED <<antiedit_config, authorized_collection, processing_edits,
                   original_messages, messages, unedited>>

\* lines 325-334: reply_text raised (FloodWait, after its sleep, or another
\* exception); the key is discarded
ReplyTextFail(p) ==
    /\ edits[p].pc = "warn"
    /\ edits' = [edits EXCEPT ![p].pc = "done", ![p].outcome = "send_failed"]
    /\ processing_edits' = processing_edits \ {edit_key(edits[p].msg)}
    /\ UNCHANGED <<antiedit_config, authorized_collection, original_messages,
                   messages, unedited>>

\* line 286: the 60 seconds are over, message.delete() is awaited
SleepOver(p) ==
    /\ edits[p].pc = "sleep"
    /\ edits' = [edits EXCEPT ![p].pc = "delete"]
    /\ UNCHANGED <<antiedit_config, authorized_collection, processing_edits,
                   original_messages, messages, unedited>>

\* lines 289-307: message.delete() succeeded, the stored original is dropped
\* and log_edit_action is awaited
DeleteMessage(p) ==
    /\ edits[p].pc = "delete"
    /\ messages' = [messages EXCEPT ![edits[p].msg].state = "deleted"]
    /\ original_messages' = [original_messages EXCEPT ![edits[p].msg] = 0]
    /\ edits' = [edits EXCEPT ![p].pc = "cleanup", ![p].outcome = "deleted"]
    /\ UNCHANGED <<antiedit_config, authorized_collection, processing_edits,
                   unedited>>

\* lines 309-315: message.delete() raised
DeleteMessageFail(p) ==
    /\ edits[p].pc = "delete"
    /\ edits' = [edits EXCEPT ![p].pc = "cleanup", ![p].outcome = "delete_failed"]
    /\ UNCHANGED <<antiedit_config, authorized_collection, processing_edits,
                   original_messages, messages, unedited>>

\* lines 300-334: log_edit_action returned or raised, the warning is deleted
\* after 3 seconds, and the key is discarded
DeleteWarning(p) ==
    /\ edits[p].pc = "cleanup"
    /\ edits' = [edits EXCEPT ![p].pc = "done"]
    /\ processing_edits' = processing_edits \ {edit_key(edits[p].msg)}
    /\ UNCHANGED <<antiedit_config, authorized_collection, original_messages,
                   messages, unedited>>

\* on_message_edited, lines 365-379, has returned
EditReturn(p) ==
    /\ edits[p].pc = "done"
    /\ edits' = [edits EXCEPT ![p] = NoEdit]
    /\ UNCHANGED <<antiedit_config, authorized_collection, processing_edits,
                   original_messages, messages, unedited>>

\* /antiedit on and off: enable_antiedit and disable_antiedit,
\* edit_tracker_db.py lines 79-141
ToggleAntiedit(b) ==
    /\ antiedit_config' = [antiedit_config EXCEPT ![EditChat] = b]
    /\ UNCHANGED <<authorized_collection, processing_edits, original_messages,
                   messages, edits, unedited>>

\* /authedit: add_authorized_user, edit_tracker_db.py lines 186-212
AddAuthorizedUser(u) ==
    /\ authorized_collection' = authorized_collection \cup {<<EditChat, u>>}
    /\ UNCHANGED <<antiedit_config, processing_edits, original_messages,
                   messages, edits, unedited>>

\* /authedit remove: remove_authorized_user, edit_tracker_db.py lines 214-240
RemoveAuthorizedUser(u) ==
    /\ authorized_collection' = authorized_collection \ {<<EditChat, u>>}
    /\ UNCHANGED <<antiedit_config, processing_edits, original_messages,
                   messages, edits, unedited>>

EditNext ==
    \/ \E m \in Msgs, t \in EditTexts : StoreNewMessage(m, t)
    \/ \E p \in EditProcs, m \in Msgs, t \in EditTexts : HandleEditedMessage(p, m, t)
    \/ \E p \in EditProcs : IsAntieditEnabled(p)
    \/ \E p \in EditProcs : IsAuthorizedUser(p)
    \/ \E p \in EditProcs : ReplyText(p)
    \/ \E p \in EditProcs : ReplyTextFail(p)
    \/ \E p \in EditProcs : SleepOver(p)
    \/ \E p \in EditProcs : DeleteMessage(p)
    \/ \E p \in EditProcs : DeleteMessageFail(p)
    \/ \E p \in EditProcs : DeleteWarning(p)
    \/ \E p \in EditProcs : EditReturn(p)
    \/ \E b \in BOOLEAN : ToggleAntiedit(b)
    \/ \E u \in Msgs : AddAuthorizedUser(u)
    \/ \E u \in Msgs : RemoveAuthorizedUser(u)

EditSpec == Init /\ [][EditNext]_vars

---------------------------------------------------------------------------
(* Vocabulary of the properties *)

\* add_warning of invocation p has returned
Returned(p) == h[p].pc \in {"respond", "done"} /\ h[p].deleted

\* invocation p has handled a positive detection to its end
Handled(p) == h[p].pc = "done" /\ h[p].deleted

Punitive == {"mute", "ban"}

Min(a, b) == IF a < b THEN a ELSE b

\* the detector has returned from detect_abuse for the call looked at
Detected ==
    det.pc \in {"detected", "done", "generated", "lenient", "strict", "leetspeak"}

\* the call is detect(text, [t]) for one banned term t
OneTerm(t) == Detected /\ det.abuse_words = <<t>>

\* word occurs in text, and each time with a word character right before it
\* or right after it: only strictly inside longer words
OnlyInsideWords(text, word) ==
    /\ Contains(text, word)
    /\ \A i \in 0..(Len(text) - Len(word)) :
          SubSeq(text, i + 1, i + Len(word)) = word =>
             \/ i >= 1 /\ text[i] \in WordChars
             \/ i + Len(word) < Len(text) /\ text[i + Len(word) + 1] \in WordChars

\* the documents of the chats other than c, and of the pairs other than (c, u)
OtherChats(coll, c) == SelectSeq(coll, LAMBDA d : d.chat_id # c)

OtherPairs(coll, c, u) == SelectSeq(coll, LAMBDA d : ~(d.chat_id = c /\ d.user_id = u))

---------------------------------------------------------------------------
(* Properties *)

\* C1: increment (add_warning) is atomic per (chat, user).  With no reset,
\* once K invocations on a pair have returned from add_warning, the pair has
\* exactly one document, its count is K (the pair starts absent, at 0), and
\* the K returned counts are pairwise distinct.
C1_AtomicIncrement ==
    \A c \in Chats, u \in Users :
        LET Ret == {p \in Procs : Returned(p) /\ h[p].chat = c /\ h[p].user = u}
        IN  Ret # {} =>
              /\ Cardinality(Matching(warns, c, u)) = 1
              /\ get_warnings(warns, c, u) = Cardinality(Ret)
              /\ \A p, q \in Ret : p # q => h[p].warnings # h[q].warnings

\* C5: the stored count of a pair decreases from one state to the next only
\* in a step of clear_warnings or reset_chat_warnings, and that step leaves
\* the pair's history empty.
C5_CountMonotone ==
    [][\A c \in Chats, u \in Users :
         get_warnings(warns', c, u) < get_warnings(warns, c, u) =>
            /\ ClearWarnings(c, u) \/ ResetChatWarnings(c)
            /\ get_offenses(warns', c, u) = <<>>]_vars


\* C2: escalation threshold exactness.  For a handled detection with limit
\* L > 0 and action mute or ban, the action is executed exactly when the count
\* returned by the increment is >= L.  For L = 3 and mute: counts 1 and 2 only
\* delete and warn (count 2 with the final warning), counts 3 and 4 both mute.
C2_ThresholdExact ==
    \A p \in Procs :
        Handled(p) /\ h[p].warning_limit > 0 /\ h[p].action \in Punitive =>
          /\ h[p].punish = (IF h[p].warnings >= h[p].warning_limit
                            THEN h[p].action ELSE "none")
          /\ h[p].warning_limit = 3 /\ h[p].action = "mute" =>
               /\ h[p].warnings = 1 =>
                    h[p].warning_text = Msg("count", "mute", 1, 3, 2)
               /\ h[p].warnings = 2 =>
                    h[p].warning_text = Msg("final", "mute", 2, 3, 1)
               /\ h[p].warnings \in {3, 4} =>
                    /\ h[p].punish = "mute"
                    /\ h[p].warning_text.kind = "limit_reached"

C2_Witness ==
    \E p \in Procs :
        /\ Handled(p) /\ h[p].warning_limit = 3 /\ h[p].action = "mute"
        /\ h[p].warnings = 4 /\ h[p].punish = "mute"

\* C3, as claimed: with limit 2 and action ban, the first and the second
\* detection only delete and warn, with texts counting 1/2 and 2/2 (final),
\* and the third detection bans.
C3_BanOnThird ==
    \A p \in Procs :
        Handled(p) /\ h[p].warning_limit = 2 /\ h[p].action = "ban" =>
          /\ h[p].warnings = 1 =>
               /\ h[p].punish = "none"
               /\ h[p].warning_text.num = 1 /\ h[p].warning_text.den = 2
          /\ h[p].warnings = 2 =>
               /\ h[p].punish = "none"
               /\ h[p].warning_text = Msg("final", "ban", 2, 2, 1)
          /\ h[p].warnings = 3 => h[p].punish = "ban"

\* C3, amended: with limit 2 and action ban, the first detection only deletes
\* and warns, with the final-warning text counting 1/2; the second detection
\* already produces the ban and the banned text, and so does the third.
C3_BanOnSecond ==
    \A p \in Procs :
        Handled(p) /\ h[p].warning_limit = 2 /\ h[p].action = "ban" =>
          /\ h[p].deleted
          /\ h[p].warnings = 1 =>
               /\ h[p].punish = "none"
               /\ h[p].warning_text = Msg("final", "ban", 1, 2, 1)
          /\ h[p].warnings >= 2 =>
               /\ h[p].punish = "ban"
               /\ h[p].warning_text = Msg("limit_reached", "ban", -1, -1, -1)

C3_Witness ==
    \E p \in Procs :
        /\ Handled(p) /\ h[p].warning_limit = 2 /\ h[p].action = "ban"
        /\ h[p].warnings = 2 /\ h[p].punish = "ban"
        /\ get_warnings(warns, h[p].chat, h[p].user) = 2

\* C4: unlimited mode never escalates.  With limit 0 no count and no action
\* makes should_take_action decide to act, and no handler run that read limit
\* 0 executes a mute or a ban.
C4_UnlimitedNeverEscalates ==
    /\ \A w \in 0..MaxSeqMsgs, a \in Actions : ~should_take_action(w, 0, a)
    /\ \A p \in Procs : h[p].warning_limit = 0 => h[p].punish = "none"

C4_Witness ==
    \E p \in Procs :
        /\ Handled(p) /\ h[p].warning_limit = 0 /\ h[p].action = "ban"
        /\ h[p].warnings = 4 /\ h[p].punish = "none"
        /\ h[p].warning_text.kind = "unlimited"


\* C6: offense counter monotonicity.  In sequential runs every offense is an
\* increment of the one pair, so a document created at time first_offense has
\* received N = clock - first_offense + 1 increments since the pair was absent:
\* get returns N, the increment that has just returned returned N, and get
\* returns 0 while the pair is absent.
C6_SequentialCount ==
    \A c \in SeqChats, u \in SeqUsers :
        LET d == find_one(warns, c, u)
        IN  /\ d = <<>> => get_warnings(warns, c, u) = 0
            /\ d # <<>> =>
                 get_warnings(warns, c, u) = clock - d[1].first_offense + 1
            /\ \A p \in Procs :
                 Returned(p) /\ h[p].chat = c /\ h[p].user = u =>
                    /\ d # <<>>
                    /\ h[p].warnings = clock - d[1].first_offense + 1

C6_Witness ==
    \E p \in Procs :
        /\ Returned(p) /\ h[p].warnings = 5
        /\ get_warnings(warns, h[p].chat, h[p].user) = 5
        /\ clock > 5

\* C7: history cap.  A document never holds more than 10 offenses; it holds
\* min(count, 10) of them, and they are the most recent ones, oldest first:
\* after 15 sequential increments exactly the offenses 6..15.
C7_HistoryCap ==
    \A i \in DOMAIN warns :
        LET d == warns[i]
            n == Len(d.offenses)
        IN  /\ n <= HistoryCap
            /\ n = Min(d.warnings, HistoryCap)
            /\ \A k \in 1..n : d.offenses[k].timestamp = d.last_offense - n + k
            /\ d.warnings = HistoryCap + 5 =>
                 /\ n = HistoryCap
                 /\ d.offenses[1].timestamp = d.first_offense + 5
                 /\ d.offenses[n].timestamp = d.first_offense + HistoryCap + 4

C7_Witness ==
    \E i \in DOMAIN warns :
        /\ warns[i].warnings = HistoryCap + 5
        /\ Len(warns[i].offenses) = HistoryCap

\* C8: a step of clear_warnings leaves the pair with count 0 and an empty
\* history; and an increment that found the pair absent returns 1 and, for a
\* limit above 1, ends without mute or ban and with a below-limit text.
C8_ResetClears ==
    /\ [][\A c \in Chats, u \in Users :
            ClearWarnings(c, u) =>
               /\ get_warnings(warns', c, u) = 0
               /\ get_offenses(warns', c, u) = <<>>]_vars
    /\ [](\A p \in Procs :
            Returned(p) /\ h[p].user_warns = <<>> =>
               /\ h[p].warnings = 1
               /\ Handled(p) /\ h[p].warning_limit > 1 =>
                    /\ h[p].punish = "none"
                    /\ h[p].warning_text.kind # "limit_reached")

\* C9: a step of reset_chat_warnings(c) leaves every user of chat c with
\* count 0 and an empty history, and leaves the documents of every other
\* chat as they were.
C9_ResetScope ==
    [][\A c \in Chats :
         ResetChatWarnings(c) =>
            /\ \A u \in Users : /\ get_warnings(warns', c, u) = 0
                                /\ get_offenses(warns', c, u) = <<>>
            /\ OtherChats(warns', c) = OtherChats(warns, c)]_vars

C9_Witness ==
    /\ last.op = "reset_chat_warnings"
    /\ clock = 3
    /\ Len(warns) = 1
    /\ warns[1].chat_id # last.chat
    /\ warns[1].warnings = 1
    /\ \A u \in Users : get_warnings(warns, last.chat, u) = 0

\* C10: pairs are independent.  The write of an increment and a clear of a
\* pair leave the documents of every other pair as they were; and an
\* increment whose own pair is still as it read it raises that pair's count
\* by one, whatever handlers of other pairs did between its read and its write.
C10_Independent ==
    [][/\ \A p \in Procs :
            AddWarningWrite(p) =>
               /\ OtherPairs(warns', h[p].chat, h[p].user)
                    = OtherPairs(warns, h[p].chat, h[p].user)
               /\ h[p].user_warns = find_one(warns, h[p].chat, h[p].user) =>
                    /\ get_warnings(warns', h[p].chat, h[p].user)
                         = get_warnings(warns, h[p].chat, h[p].user) + 1
                    /\ h'[p].warnings = get_warnings(warns', h[p].chat, h[p].user)
       /\ \A c \in Chats, u \in Users :
            ClearWarnings(c, u) =>
               OtherPairs(warns', c, u) = OtherPairs(warns, c, u)]_vars

C10_Witness ==
    \E p, q \in Procs :
        /\ p # q /\ Returned(p) /\ Returned(q)
        /\ h[p].chat = h[q].chat /\ h[p].user # h[q].user
        /\ h[p].warnings = 1 /\ h[q].warnings = 2
        /\ get_warnings(warns, h[p].chat, h[p].user) = 1
        /\ get_warnings(warns, h[q].chat, h[q].user) = 2

\* C11: word-boundary correctness.  A banned term that occurs in the text only
\* strictly inside longer words ("ass" in "class", in "assignment") is not
\* reported by detect(text, [term]) in non-strict mode.
C11_WordBoundary ==
    \A t \in {Term_ass, Term_it} :
        OneTerm(t) /\ OnlyInsideWords(det.normalized, t) => ~det.result.matched

\* C12: monotonic pattern coverage.  For a term t and a text f(t), f a
\* single-position transform of the separator, doubling or leetspeak family
\* (first and last position included), detect(f(t), [t]) in non-strict mode
\* returns matched = true.
C12_PatternCoverage ==
    \A t \in {Term_it, Term_ass, Term_spam} :
        OneTerm(t) /\ det.text \in Transforms(t) => det.result.matched

\* C13: with the word list ["idiot"], non-strict, the text "1d10t" is detected
\* as a match of "idiot", and it is the pattern tier that reports it.
C13_Leetspeak1d10t ==
    OneTerm(Term_idiot) /\ det.text = Text_1d10t =>
        det.result = [matched |-> TRUE, word |-> Term_idiot, tier |-> "pattern"]

C13_Witness ==
    /\ det.pc = "done"
    /\ det.text = Text_1d10t
    /\ det.abuse_words = <<Term_idiot>>
    /\ det.result.tier = "pattern"
    /\ det.detected = <<Term_idiot>>

\* C14: a banned term whose characters are all joined by one separator of the
\* separator set, followed by further ordinary words ("s.p.a.m this message"),
\* is detected, the returned term is the banned term, and the match is found
\* in the text without separators.
C14_SeparatedTerm ==
    \A t \in {Term_it, Term_ass, Term_spam}, sep \in separators :
        OneTerm(t) /\ det.text = Join(<<sep>>, t) \o ThisMessage =>
            det.result = [matched |-> TRUE, word |-> t, tier |-> "no_sep"]

C14_Witness ==
    /\ Detected
    /\ det.text = Join(<<".">>, Term_spam) \o ThisMessage
    /\ det.abuse_words = <<Term_spam>>
    /\ det.result.matched
    /\ det.result.word = Term_spam

\* C15: no false positive on unrelated text.  For every term that is not a
\* substring of "hello world, nice day", detect of that text with [term] in
\* non-strict mode returns matched = false.
C15_NoFalsePositive ==
    \A t \in SeqsOf({"o", "w", "d", "n", "x"}, 1, MaxTermLen) :
        OneTerm(t) /\ det.text = Text_hello /\ ~Contains(Text_hello, t) =>
            ~det.result.matched

\* C16: normalization is idempotent: normalize(normalize(x)) = normalize(x)
\* for every text x.
C16_NormalizeIdempotent ==
    det.pc \in {"renormalized", "detected", "done"} =>
        det.renormalized = det.normalized

\* C17: detect tries the terms in list order and the first hit wins.  If it
\* returns a term, that term is at some index i of the list, matches when
\* checked on its own, and no term at an index j < i does; if it returns no
\* match, no term of the list matches on its own.  It returns the first of
\* the terms detect_multiple returns.
C17_FirstHitWins ==
    /\ Detected /\ det.result.matched =>
          \E i \in DOMAIN det.abuse_words :
              /\ det.result.word = lower_strip(det.abuse_words[i])
              /\ detect_abuse(det.text, <<det.abuse_words[i]>>).matched
              /\ \A j \in 1..(i - 1) :
                    ~detect_abuse(det.text, <<det.abuse_words[j]>>).matched
    /\ Detected /\ ~det.result.matched =>
          \A i \in DOMAIN det.abuse_words :
              ~detect_abuse(det.text, <<det.abuse_words[i]>>).matched
    /\ det.pc = "done" =>
          /\ det.result.matched <=> det.detected # <<>>
          /\ det.result.matched => det.result.word = det.detected[1]

C17_Witness ==
    /\ det.pc = "done"
    /\ det.text = Term_spam \o <<" ">> \o Term_it
    /\ det.abuse_words = <<Term_it, Term_spam>>
    /\ det.result.word = Term_it
    /\ det.detected = <<Term_it, Term_spam>>

C19_DeleteUnconditional ==
    /\ [][\A p \in Procs :
            h[p].pc = "detect" /\ h'[p].pc # "detect" =>
               /\ h'[p].deleted <=> h[p].matched_word # NoWord
               /\ h'[p].pc = (IF h[p].matched_word # NoWord THEN "find" ELSE "done")]_vars
    /\ [](\A p \in Procs :
            h[p].pc \in {"find", "write", "respond"} =>
               h[p].deleted /\ h[p].matched_word # NoWord)
    /\ [](\A p \in Procs :
            Handled(p) =>
               h[p].punish \in {"none", h[p].action}
               /\ (h[p].punish # "none" => h[p].warnings >= h[p].warning_limit))

C19_Witness ==
    \E p \in Procs :
        /\ Handled(p)
        /\ h[p].action = "warn_only"
        /\ h[p].warning_limit = 2
        /\ h[p].warnings = 3
        /\ h[p].punish = "none"

\* C20: with action delete_only or warn_only no mute and no ban is executed,
\* for any count and any limit, counts at or above the limit included.
C20_NoMuteNoBan ==
    /\ \A a \in {"delete_only", "warn_only"} : execute_action(a) = "none"
    /\ \A p \in Procs :
          h[p].action \in {"delete_only", "warn_only"} => h[p].punish = "none"

C20_Witness ==
    \E p \in Procs :
        /\ Handled(p)
        /\ h[p].action = "delete_only"
        /\ h[p].warning_limit = 2
        /\ h[p].warnings = 3
        /\ should_take_action(h[p].warnings, h[p].warning_limit, h[p].action)
        /\ h[p].punish = "none"
        /\ h[p].warning_text = Msg("limit_reached", "delete_only", 2, 2, -1)

---------------------------------------------------------------------------
(* C21 - C30 *)

\* C21: an invalid (unrecognised) config.action is treated as delete_only: for
\* every count and limit the decision, the message shown and the effect
\* executed are those of action = delete_only, and no mute or ban is executed.
C21_InvalidAsDeleteOnly ==
    \A p \in SeqProcs :
        Handled(p) /\ h[p].action \notin Actions =>
            /\ h[p].punish = "none"
            /\ should_take_action(h[p].warnings, h[p].warning_limit, h[p].action)
                 = should_take_action(h[p].warnings, h[p].warning_limit, "delete_only")
            /\ [h[p].warning_text EXCEPT !.action = "delete_only"]
                 = get_warning_message(h[p].warnings, h[p].warning_limit,
                                       "delete_only")

\* C22: if the increment of the offense store fails, the stored count is
\* unchanged, add_warning returns 0, no mute or ban is executed for that
\* detection, the increment is not tried again in that run, and the handler
\* goes on to its end.
C22_IncrementFailure ==
    /\ [](\A p \in SeqProcs :
            "add_warning" \in h[p].failed =>
                /\ h[p].warnings = 0
                /\ h[p].pc \in {"respond", "done"}
                /\ h[p].punish = "none")
    /\ [][\A p \in SeqProcs :
            "add_warning" \in h'[p].failed =>
                /\ warns' = warns
                /\ h'[p].pc \notin {"find", "write"}]_vars

\* a failed increment that would have reached the limit of a mute or a ban
C22_Witness ==
    \E p \in SeqProcs :
        /\ h[p].pc = "done"
        /\ "add_warning" \in h[p].failed
        /\ h[p].action \in Punitive
        /\ h[p].warning_limit > 0
        /\ get_warnings(warns, h[p].chat, h[p].user) + 1 >= h[p].warning_limit
        /\ h[p].warning_text # NoMsg

\* C23: a failure of the audit log write never blocks the escalation path:
\* after log_abuse_detection failed, the warning for the new count is sent and
\* the decision for the new count is taken and executed.
C23_LogFailureHarmless ==
    \A p \in SeqProcs :
        h[p].pc = "done" /\ "log_abuse_detection" \in h[p].failed =>
            /\ h[p].warning_text # NoMsg
            /\ h[p].warning_text =
                 get_warning_message(h[p].warnings, h[p].warning_limit, h[p].action)
            /\ h[p].punish =
                 IF should_take_action(h[p].warnings, h[p].warning_limit, h[p].action)
                 THEN execute_action(h[p].action) ELSE "none"

\* the log write failed and the user was muted or banned all the same
C23_Witness ==
    \E p \in SeqProcs :
        /\ h[p].pc = "done"
        /\ h[p].failed = {"log_abuse_detection"}
        /\ h[p].warnings >= 1
        /\ h[p].punish \in Punitive

\* the patterns of a banned term whose regex raises re.error
Raising(word) ==
    {pattern \in generate_patterns(lower_strip(word)) :
        re_search(create_regex_pattern(pattern), <<>>) = "error"}

\* C24: fail-open per pattern: if a pattern of a term raises a regex error, the
\* pattern is skipped and the scan goes on with the remaining patterns and the
\* remaining terms, so a term one of whose patterns matches the text is still
\* reported.
C24_FailOpen ==
    Detected /\ det.text # <<>> =>
        \A j \in DOMAIN det.abuse_words :
            (\E pattern \in generate_patterns(lower_strip(det.abuse_words[j])) :
                re_search(create_regex_pattern(pattern),
                          normalize_text(det.text)) = "match")
            => det.result.matched

\* the first term has a raising pattern and matches nothing; the second term is
\* reported through one of its patterns, another of which raises
C24_Witness ==
    /\ Detected
    /\ Len(det.abuse_words) = 2
    /\ Raising(det.abuse_words[1]) # {}
    /\ Raising(det.abuse_words[2]) # {}
    /\ ~detect_abuse(det.text, <<det.abuse_words[1]>>).matched
    /\ det.result = [matched |-> TRUE, word |-> det.abuse_words[2],
                     tier |-> "pattern"]

\* C25: generate_patterns returns at most 50 variations for every term,
\* whatever the length of the term.
C25_BoundedPatterns ==
    det.pc = "generated" =>
        \A i \in DOMAIN det.patterns : Cardinality(det.patterns[i]) <= 50

\* C26: add_abuse_word returns False and leaves the word list unchanged when
\* the lower-cased, trimmed term is empty or already present; after any
\* sequence of adds and removes, two concurrent adds of one term included, the
\* list holds at most one entry per term and every stored term is lower-case
\* and trimmed.
C26_UniqueTerms ==
    /\ [](\A i, j \in DOMAIN abuse_words_collection :
            /\ i # j => abuse_words_collection[i].word # abuse_words_collection[j].word
            /\ abuse_words_collection[i].word # <<>>
            /\ lower_strip(abuse_words_collection[i].word)
                 = abuse_words_collection[i].word)
    /\ [][\A p \in Procs :
            calls[p].pc \in {"idle", "insert"} /\ calls'[p].pc = "added" =>
                /\ calls'[p].added = "False"
                    => abuse_words_collection' = abuse_words_collection
                /\ (calls'[p].word = <<>>
                     \/ word_exists(abuse_words_collection, calls'[p].word))
                    => /\ calls'[p].added = "False"
                       /\ abuse_words_collection' = abuse_words_collection]_vars

\* two adds of one term that both found it absent: one is refused at insert_one
C26_Witness ==
    /\ \A p \in Procs : calls[p].pc = "added" /\ calls[p].word = <<"i", "t">>
    /\ {calls[p].added : p \in Procs} = {"True", "False"}
    /\ WordsOf(abuse_words_collection) = <<(<<"i", "t">>)>>

\* C27: a call of detect_abuse_in_message scans the list of terms it fetched at
\* its start: a term added or removed while the call is running changes neither
\* the list scanned nor the result.
C27_SnapshotScan ==
    [][\A p \in Procs :
        /\ calls[p].pc = "idle" /\ calls'[p].pc \in {"scan", "scanned"} =>
               calls'[p].words_list = WordsOf(abuse_words_collection)
        /\ calls[p].pc = "scan" =>
               /\ calls'[p].words_list = calls[p].words_list
               /\ calls'[p].pc = "scanned" =>
                      calls'[p].result =
                          detect_abuse(calls[p].text, calls'[p].words_list)]_vars

\* the term that matched was removed from the collection during the call
C27_Witness ==
    \E p \in Procs :
        /\ calls[p].pc = "scanned"
        /\ calls[p].result.matched
        /\ calls[p].words_list # WordsOf(abuse_words_collection)
        /\ ~detect_abuse(calls[p].text, WordsOf(abuse_words_collection)).matched

\* C28: with exclude_admins true (the default) a message of an administrator
\* of the chat is never deleted, counted as an offense, warned or punished.
C28_AdminsExempt ==
    \A p \in Procs :
        (/\ h[p].pc # "idle"
         /\ config[h[p].chat].exclude_admins
         /\ is_admin(h[p].chat, h[p].user)) =>
            /\ ~h[p].deleted
            /\ h[p].warnings = 0
            /\ h[p].warning_text = NoMsg
            /\ h[p].punish = "none"

\* C29: once init() has completed, one shared store and one shared detector
\* are initialised and are the ones the handlers of the plugin see, so a
\* matching message in an enabled chat is detected; get_detector() returns the
\* same instance at every call.
C29_SharedInstances ==
    mods.pc = "running" =>
        /\ mods.abuse_words_db # "None"
        /\ mods.plugin_db = mods.abuse_words_db
        /\ mods.plugin_detector # 0
        /\ mods.returned = {mods.plugin_detector}
        /\ \A p \in Procs :
              /\ h[p].pc = "done"
              /\ config[h[p].chat].enabled
              /\ h[p].user # OWNER_ID
              /\ h[p].matched_word # NoWord
              => h[p].deleted

\* C30: a run of the handler increments the count of the sender exactly once,
\* by one, when and only when detection is enabled, the sender is not the
\* owner and the text matches a banned term, and the escalation is decided on
\* the count that increment returned; every other run, and every other step,
\* leaves the offense store unchanged.
C30_HandlerFrame ==
    /\ [](\A p \in Procs :
            /\ h[p].pc \in {"find", "write", "respond"} =>
                   h[p].user # OWNER_ID /\ h[p].matched_word # NoWord
            /\ h[p].pc = "done" =>
                   /\ h[p].warnings # 0 <=>
                          /\ config[h[p].chat].enabled
                          /\ h[p].user # OWNER_ID
                          /\ h[p].matched_word # NoWord
                   /\ h[p].punish # "none" <=>
                          /\ h[p].warnings # 0
                          /\ should_take_action(h[p].warnings, h[p].warning_limit,
                                                h[p].action)
                          /\ h[p].action \in Punitive)
    /\ [][\A p \in Procs :
            h[p].pc # "idle" /\ h'[p] # h[p] =>
                IF h[p].pc = "write"
                THEN /\ get_warnings(warns', h[p].chat, h[p].user)
                         = get_warnings(warns, h[p].chat, h[p].user) + 1
                     /\ h'[p].warnings = get_warnings(warns', h[p].chat, h[p].user)
                     /\ OtherPairs(warns', h[p].chat, h[p].user)
                         = OtherPairs(warns, h[p].chat, h[p].user)
                ELSE warns' = warns]_vars

---------------------------------------------------------------------------
(* C31 - C38 *)

\* the text variant the claim names for a count and a positive limit
VariantOf(warnings, limit) ==
    IF limit - warnings > 1 THEN "count"
    ELSE IF limit - warnings = 1 THEN "final"
    ELSE "limit_reached"

\* C31, as claimed: for limit > 0 the warning text of every configured action
\* is chosen by remaining = limit - count: remaining > 1 gives the text with
\* the count and the remaining warnings, remaining = 1 the final warning, and
\* remaining <= 0 the terminal notification.
C31_VariantByRemaining ==
    \A p \in SeqProcs :
        Handled(p) /\ h[p].warning_limit > 0 /\ h[p].action \in Actions =>
            /\ h[p].warning_text.kind = VariantOf(h[p].warnings, h[p].warning_limit)
            /\ h[p].warning_text.kind = "count" =>
                 /\ h[p].warning_text.num = h[p].warnings
                 /\ h[p].warning_text.rem = h[p].warning_limit - h[p].warnings

\* C31, amended: the above for the actions delete_only, mute and ban; for
\* warn_only the text is the same generic warning for every count and limit.
C31_VariantByRemainingPunishing ==
    \A p \in SeqProcs :
        Handled(p) /\ h[p].warning_limit > 0 /\ h[p].action \in Actions =>
            IF h[p].action = "warn_only"
            THEN h[p].warning_text = Msg("warn_only", "warn_only", -1, -1, -1)
            ELSE /\ h[p].warning_text.kind
                      = VariantOf(h[p].warnings, h[p].warning_limit)
                 /\ h[p].warning_text.kind \in {"count", "final"} =>
                      /\ h[p].warning_text.num = h[p].warnings
                      /\ h[p].warning_text.den = h[p].warning_limit
                      /\ h[p].warning_text.rem
                           = h[p].warning_limit - h[p].warnings

C31_Witness ==
    \E p \in SeqProcs :
        /\ Handled(p) /\ h[p].warning_limit = 3 /\ h[p].action = "mute"
        /\ h[p].warnings = 2
        /\ h[p].warning_text = Msg("final", "mute", 2, 3, 1)


\* both detect_abuse(text, abuse_words, False) and detect_abuse(text,
\* abuse_words, True) have returned for the call looked at
BothModes == det.pc \in {"strict", "leetspeak"}

\* no banned term of the call is related to the text by one of the first three
\* tiers (exact, separator-stripped, pattern)
NoTierRelates ==
    \A i \in DOMAIN det.abuse_words :
        LET word_lower == lower_strip(det.abuse_words[i])
        IN  /\ ~Contains(normalize_text(det.text), word_lower)
            /\ ~Contains(remove_separators(normalize_text(det.text)), word_lower)
            /\ \A pattern \in generate_patterns(word_lower) :
                   re_search(create_regex_pattern(pattern),
                             normalize_text(det.text)) # "match"

\* some banned term of the call is similar to a word of the text
FuzzyRelates ==
    \E i \in DOMAIN det.abuse_words :
        fuzzy_match(normalize_text(det.text), lower_strip(det.abuse_words[i]))

\* C32: fuzzy matching is attempted only when strict is true.  A text related
\* to the banned terms only by fuzzy similarity is not matched with
\* strict = false (and is matched, at the fuzzy tier, with strict = true), no
\* result with strict = false comes from the fuzzy tier, and every text matched
\* with strict = false is matched with strict = true.
C32_FuzzyOnlyWhenStrict ==
    BothModes /\ det.text # <<>> =>
        /\ NoTierRelates /\ FuzzyRelates =>
              /\ ~det.lenient.matched
              /\ det.strict.matched /\ det.strict.tier = "fuzzy"
        /\ det.lenient.tier # "fuzzy"
        /\ det.lenient.matched => det.strict.matched

C32_Witness ==
    /\ BothModes /\ det.text = Text_spat /\ det.abuse_words = <<Term_spam>>
    /\ ~det.lenient.matched
    /\ det.strict = [matched |-> TRUE, word |-> Term_spam, tier |-> "fuzzy"]

\* generate_leetspeak has returned for the banned terms of the call
Leeted33 == det.pc = "leetspeak"

\* the positions of a word whose letter has replacements in leetspeak_map
Flagged(word) == {i \in DOMAIN word : word[i] \in LeetLetters}

\* the variations of the i-th banned term other than the term itself
LeetVariants(i) == det.leetspeak[i] \ {lower_strip(det.abuse_words[i])}

\* variation v is word with the character at pos replaced by a replacement
\* of that character
VariedAt(v, word, pos) ==
    \E k \in DOMAIN leetspeak_map(word[pos]) :
        v = Substitute(word, pos, leetspeak_map(word[pos])[k])

\* the positions varied in the variations of the i-th banned term
VariedPositions(i) ==
    {pos \in Flagged(lower_strip(det.abuse_words[i])) :
        \E v \in LeetVariants(i) : VariedAt(v, lower_strip(det.abuse_words[i]), pos)}

\* C33, as claimed: every leetspeak variant differs from the term at exactly
\* one flagged position, each position that is varied is substituted with each
\* of its alternatives of leetspeak_map, and for a term with more than 3
\* substitutable positions only the first 3 of them are substituted.
C33_EachAlternative ==
    Leeted33 =>
        \A i \in DOMAIN det.abuse_words :
            LET word == lower_strip(det.abuse_words[i])
            IN  /\ \A v \in LeetVariants(i) :
                       \E pos \in Flagged(word) : VariedAt(v, word, pos)
                /\ \A pos \in VariedPositions(i) :
                       \A k \in DOMAIN leetspeak_map(word[pos]) :
                           Substitute(word, pos, leetspeak_map(word[pos])[k])
                               \in LeetVariants(i)
                /\ Cardinality(Flagged(word)) > 3 =>
                       VariedPositions(i) = FirstN(Flagged(word), 3)

\* C33, amended: as claimed, except that for a term with more than 3
\* substitutable positions each of the first 3 positions is substituted with
\* the first two of its alternatives only.
C33_FirstTwoWhenCut ==
    Leeted33 =>
        \A i \in DOMAIN det.abuse_words :
            LET word == lower_strip(det.abuse_words[i])
                cut == Cardinality(Flagged(word)) > 3
            IN  /\ \A v \in LeetVariants(i) :
                       \E pos \in Flagged(word) : VariedAt(v, word, pos)
                /\ \A pos \in VariedPositions(i) :
                       \A k \in DOMAIN leetspeak_map(word[pos]) :
                           Substitute(word, pos, leetspeak_map(word[pos])[k])
                               \in LeetVariants(i)
                             <=> (cut => k <= 2)
                /\ VariedPositions(i)
                     = IF cut THEN FirstN(Flagged(word), 3) ELSE Flagged(word)

C33_Witness ==
    /\ Leeted33 /\ det.abuse_words = <<Term_ass, Term_idiot>>
    /\ LeetVariants(1) =
         {Substitute(Term_ass, pk[1], leetspeak_map(Term_ass[pk[1]])[pk[2]]) :
             pk \in (1..3) \X (1..5)}
    /\ LeetVariants(2) =
         {<<"1", "d", "i", "o", "t">>, <<"!", "d", "i", "o", "t">>,
          <<"i", "d", "1", "o", "t">>, <<"i", "d", "!", "o", "t">>,
          <<"i", "d", "i", "0", "t">>, <<"i", "d", "i", "(", ")", "t">>}

\* C36: a banned term that is empty or only whitespace never produces a
\* match: detect_abuse never returns matched = true with an empty matched
\* term, whatever the text and whatever strict_mode.
C36_NoEmptyMatch ==
    /\ Detected => ~(det.result.matched /\ det.result.word = <<>>)
    /\ BothModes =>
          /\ ~(det.lenient.matched /\ det.lenient.word = <<>>)
          /\ ~(det.strict.matched /\ det.strict.word = <<>>)

\* C35: the /antiabuse strict command changes only strict_mode.  The write of
\* the command leaves action, warning_limit and enabled of the chat as they
\* are at that moment, so what another admin command wrote since the command
\* read the config is still in place.
C35_StrictOnly ==
    [][\A a \in Admins :
          cmds[a].pc = "read" /\ cmds'[a].pc = "idle" =>
              config'[cmds[a].chat] = config[cmds[a].chat]]_vars

\* the tasks scheduled for key k, and those of them that may still delete
TasksOf(k) == {t \in DOMAIN tasks : tasks[t].key = k}
PendingOf(k) == {t \in TasksOf(k) : tasks[t].pc # "done" /\ ~tasks[t].cancel}

\* C34: scheduling a key again cancels and replaces the earlier task: the map
\* holds the newest task of a key until that task itself has finished, at most
\* one task per key is pending, and no entry is left for a finished task.
C34_CancelAndReplace ==
    \A k \in Keys :
        /\ \A n \in TasksOf(k) :
               (\A t \in TasksOf(k) : t <= n) /\ tasks[n].pc # "done" =>
                   warning_delete_tasks[k] = n
        /\ Cardinality(PendingOf(k)) <= 1
        /\ warning_delete_tasks[k] # 0 =>
               tasks[warning_delete_tasks[k]].pc # "done"

\* C37: an edited message is deleted by the handler only if, at the moment of
\* the deletion, anti-edit is enabled for the chat and the editor is not
\* authorized: /authedit or /antiedit off during the warning period prevents
\* the deletion.
C37_DeleteOnlyIfStillForbidden ==
    [][\A p \in EditProcs :
          edits[p].pc = "delete" /\ edits'[p].outcome = "deleted" =>
              /\ antiedit_config[EditChat]
              /\ <<EditChat, edits[p].user>> \notin authorized_collection]_vars

\* invocation p of handle_edited_message is past the check of line 255 and
\* has not reached the end of the handler
InFlight(p) == edits[p].pc \notin {"idle", "done"}

\* C38: for each edit key at most one handling is in flight: two invocations
\* in flight have different keys, processing_edits holds exactly the keys of
\* the invocations in flight (the key is removed on every exit path), an edit
\* event whose key is being processed is skipped and leaves processing_edits
\* alone, and a text edit whose key is not being processed is handled.
C38_OneInFlightPerKey ==
    /\ [](\A p, q \in EditProcs :
              p # q /\ InFlight(p) /\ InFlight(q) => edits[p].msg # edits[q].msg)
    /\ [](processing_edits
              = {edit_key(edits[p].msg) : p \in {q \in EditProcs : InFlight(q)}})
    /\ [][\A p \in EditProcs :
              edits[p].pc = "idle" /\ edits'[p].pc # "idle" =>
                  IF edit_key(edits'[p].msg) \in processing_edits
                  THEN /\ edits'[p].pc = "done"
                       /\ edits'[p].outcome \in {"skipped", "ignored"}
                       /\ processing_edits' = processing_edits
                  ELSE is_actual_text_edit(edits'[p].msg, edits'[p].text)
                           => InFlight(p)']_vars

C38_Witness ==
    \E p, q \in EditProcs :
        /\ edits[p].pc = "sleep" /\ edits[q].pc = "done"
        /\ edits[q].outcome = "skipped" /\ edits[q].msg = edits[p].msg
        /\ processing_edits = {edit_key(edits[p].msg)}
===========================================================================
